---- MODULE Spec2Model ----
(***************************************************************************)
(* Model of the Merlin listener subsystem: the listener service            *)
(* (pkg/services/listeners), the TCP listener (pkg/listeners/tcp) and the  *)
(* transform chain run by Construct / Deconstruct.                         *)
(***************************************************************************)
EXTENDS Integers, Sequences, FiniteSets, TLC

(***************************************************************************)
(* Bounds of the model.                                                    *)
(***************************************************************************)
\* number of identifiers uuid.NewV4 hands out in one behaviour
MaxIds == 3
\* number of launched, not yet scheduled, server Start tasks per server
MaxPending == 1

(***************************************************************************)
(* Strings.  Go strings are modelled by TLA+ strings; the only operations  *)
(* the code applies to them are comparison, strings.ToLower and, for the   *)
(* Transforms option, strings.Split.  A Transforms value is the sequence   *)
(* of its comma-free pieces and its commas, so that Split is computed.     *)
(***************************************************************************)
ToLower(s) ==
    CASE s = "TCP" -> "tcp"
      [] s = "HTTP" -> "http"
      [] s = "HTTPS" -> "https"
      [] s = "H2C" -> "h2c"
      [] s = "HTTP2" -> "http2"
      [] s = "HTTP3" -> "http3"
      [] s = "SMB" -> "smb"
      [] s = "UDP" -> "udp"
      [] s = "Tcp" -> "tcp"
      [] s = "AES" -> "aes"
      [] s = "GOB-BASE" -> "gob-base"
      [] s = "OPAQUE" -> "opaque"
      [] s = "Opaque" -> "opaque"
      [] s = "Name" -> "name"
      [] s = "NAME" -> "name"
      [] s = "Description" -> "description"
      [] s = "DESCRIPTION" -> "description"
      [] s = "Interface" -> "interface"
      [] s = "Port" -> "port"
      [] s = "PSK" -> "psk"
      [] s = "Transforms" -> "transforms"
      [] s = "Protocol" -> "protocol"
      [] OTHER -> s

Comma == ","

\* strings.Split(s, ","): the pieces of s between its commas; a piece that
\* holds nothing is the empty string.  Split of the empty string is <<"">>.
RECURSIVE SplitFrom(_, _, _)
SplitFrom(s, i, cur) ==
    IF i > Len(s) THEN <<cur>>
    ELSE IF s[i] = Comma THEN <<cur>> \o SplitFrom(s, i + 1, "")
    ELSE SplitFrom(s, i + 1, s[i])

Split(s) == SplitFrom(s, 1, "")

\* options[key] of a Go map: the zero value "" when the key is absent
Has(options, key) == key \in DOMAIN options
Get(options, key) == IF Has(options, key) THEN options[key] ELSE ""

\* net.ParseIP(s) # nil
ValidIPs == {"127.0.0.1", "0.0.0.0"}
ParseIPOk(s) == s \in ValidIPs

AtoiOkAny(s) == TRUE

\* strconv.Atoi(s): the integer, or an error
AtoiOk(s) == s \in {"7777", "80"}
Atoi(s) == IF s = "7777" THEN 7777 ELSE IF s = "80" THEN 80 ELSE 0

\* sha256.Sum256: a one-way, injective image that is never empty
Sum256(s) == <<"sha256", s>>

\* a Go error is its message; the nil error is the empty message
Nil == ""

(***************************************************************************)
(* Messages and byte strings.  A value is a base (a structured message or  *)
(* raw bytes) under the layers the stages have put on it, outermost first. *)
(***************************************************************************)
Msg(m) == [base |-> "msg", body |-> m, layers |-> <<>>]
Raw(b) == [base |-> "bytes", body |-> b, layers |-> <<>>]
NilBytes == Raw("")
EmptyMsg == Msg("")
IsMsg(v) == v.base = "msg" /\ v.layers = <<>>

NilTransformer == "nil"
NoKey == <<>>

\* transformer.Transformer.Construct of one stage: the gob encoder ignores
\* the key, the AES encrypter needs one.
StageConstruct(t, input, key) ==
    IF t = "aes" /\ Len(key) = 0
    THEN [err |-> "aes: invalid key size", data |-> NilBytes]
    ELSE [err |-> Nil,
          data |-> [input EXCEPT !.layers =
                       <<[t |-> t, k |-> IF t = "aes" THEN key ELSE NoKey]>> \o @]]

\* transformer.Transformer.Deconstruct of one stage: the inverse of its
\* Construct; fails on input that is not the stage's own output under the key.
StageDeconstruct(t, input, key) ==
    IF \/ input.layers = <<>>
       \/ Head(input.layers).t # t
       \/ (t = "aes" /\ Head(input.layers).k # key)
    THEN [err |-> t, ret |-> NilBytes]
    ELSE [err |-> Nil, ret |-> [input EXCEPT !.layers = Tail(@)]]

\* the dynamic type of a stage's Deconstruct result
TypeOf(ret) == IF IsMsg(ret) THEN "messages.Base" ELSE "[]uint8"

(***************************************************************************)
(* Listener kinds (package listeners) and the Listener aggregate.          *)
(***************************************************************************)
UNKNOWN == 0
HTTP == 1
TCP == 2
UDP == 3
SMB == 4

\* a nil *servers.ServerInterface, a nil authenticator, a nil map
NoServer == 0
NilAuth == "nil"
NilMap == [k \in {} |-> ""]

\* the zero value of the Listener structure
ZeroListener ==
    [id |-> 0, auth |-> NilAuth, transformers |-> <<>>, description |-> "",
     name |-> "", options |-> NilMap, psk |-> <<>>, iface |-> "", port |-> 0,
     protocol |-> UNKNOWN, server |-> NoServer]

\* the loop over the Transforms names of NewTCPListener: one stage per
\* name; gob-delegate sets no stage and appends the nil Transformer
RECURSIVE TCPTransforms(_, _)
TCPTransforms(names, acc) ==
    IF names = <<>> THEN [err |-> Nil, transformers |-> acc]
    ELSE LET transform == ToLower(Head(names))
         IN IF transform = "gob-base"
            THEN TCPTransforms(Tail(names), Append(acc, "gob-base"))
            ELSE IF transform = "gob-delegate"
            THEN TCPTransforms(Tail(names), Append(acc, NilTransformer))
            ELSE IF transform = "aes"
            THEN TCPTransforms(Tail(names), Append(acc, "aes"))
            ELSE [err |-> "unhandled transform type", transformers |-> acc]

\* the authenticator switch of NewTCPListener, taken when the key is present
TCPAuthenticator(value) ==
    IF ToLower(value) = "opaque" THEN "opaque" ELSE "none"

\* NewTCPListener(options) with the identifier uuid.NewV4 returned
NewTCPListener(options, id) ==
    LET l0 == [ZeroListener EXCEPT !.id = id, !.protocol = TCP,
                                   !.name = Get(options, "Name")]
        l1 == IF Has(options, "Description")
              THEN [l0 EXCEPT !.description = options["Description"]] ELSE l0
        l2 == IF Has(options, "PSK")
              THEN [l1 EXCEPT !.psk = Sum256(options["PSK"])] ELSE l1
        l3 == [l2 EXCEPT !.iface = Get(options, "Interface")]
        l4 == [l3 EXCEPT !.port = Atoi(Get(options, "Port"))]
        p  == IF Has(options, "Transforms")
              THEN TCPTransforms(Split(options["Transforms"]), <<>>)
              ELSE [err |-> Nil, transformers |-> <<>>]
        l5 == [l4 EXCEPT !.transformers = p.transformers]
        l6 == IF Has(options, "Authenticator")
              THEN [l5 EXCEPT !.auth = TCPAuthenticator(options["Authenticator"])]
              ELSE l5
    IN  IF l0.name = ""
        THEN [err |-> "a listener name must be provided", listener |-> l0]
        ELSE IF Get(options, "Interface") = ""
        THEN [err |-> "a network interface address must be provided", listener |-> l2]
        ELSE IF ~ParseIPOk(Get(options, "Interface"))
        THEN [err |-> "not a valid network interface", listener |-> l2]
        ELSE IF Get(options, "Port") = ""
        THEN [err |-> "a network interface port must be provided", listener |-> l3]
        ELSE IF ~AtoiOk(Get(options, "Port"))
        THEN [err |-> "error converting the port number to an integer", listener |-> l4]
        ELSE IF p.err # Nil THEN [err |-> p.err, listener |-> l5]
        ELSE [err |-> Nil, listener |-> [l6 EXCEPT !.options = options]]

(***************************************************************************)
(* The transform chain of a listener.                                      *)
(***************************************************************************)
ConstructKeyNoDefault(l, key) == key

\* the key handed to the stages: the listener's own key for an empty one
ConstructKey(l, key) == IF Len(key) = 0 THEN l.psk ELSE key

DeconstructKeyNoDefault(l, key) == key

DeconstructKey(l, key) == IF Len(key) = 0 THEN l.psk ELSE key

ConstructOrderForward(n) == [k \in 1..n |-> k]

\* the stages Construct visits, as positions of the chain: for i := n; i > 0; i--
ConstructOrder(n) == [k \in 1..n |-> n - k + 1]

\* the stages Deconstruct visits: range l.transformers
DeconstructOrder(n) == [k \in 1..n |-> k]

\* one invocation of a stage, as the calls of a run record it
StageCall(i, input, output, err) ==
    [stage |-> i, input |-> input, output |-> output, err |-> err]

RECURSIVE ConstructLoopIgnoresError(_, _, _, _, _, _)
ConstructLoopIgnoresError(l, msg, key, k, data, calls) ==
    LET n == Len(l.transformers)
    IN  IF k > n
        THEN [data |-> data, err |-> Nil, panic |-> FALSE, calls |-> calls]
        ELSE LET i == ConstructOrder(n)[k]
                 t == l.transformers[i]
                 input == IF i = n THEN msg ELSE data
                 r == StageConstruct(t, input, key)
             IN  IF t = NilTransformer
                 THEN [data |-> NilBytes, err |-> Nil, panic |-> TRUE,
                       calls |-> Append(calls, StageCall(i, input, NilBytes, "panic"))]
                 ELSE ConstructLoopIgnoresError(l, msg, key, k + 1, r.data,
                          Append(calls, StageCall(i, input, r.data, r.err)))

\* the loop of Construct from its k-th iteration on; calls is the record of
\* the stage invocations made so far
RECURSIVE ConstructLoop(_, _, _, _, _, _)
ConstructLoop(l, msg, key, k, data, calls) ==
    LET n == Len(l.transformers)
        order == ConstructOrder(n)
    IN  IF k > n
        THEN [data |-> data, err |-> Nil, panic |-> FALSE, calls |-> calls]
        ELSE LET i == order[k]
                 t == l.transformers[i]
                 input == IF i = n THEN msg ELSE data
                 r == StageConstruct(t, input, key)
             IN  IF t = NilTransformer
                 THEN [data |-> NilBytes, err |-> Nil, panic |-> TRUE,
                       calls |-> Append(calls, StageCall(i, input, NilBytes, "panic"))]
                 ELSE IF r.err # Nil
                 THEN [data |-> NilBytes,
                       err |-> "error calling the transformer construct function",
                       panic |-> FALSE,
                       calls |-> Append(calls, StageCall(i, input, r.data, r.err))]
                 ELSE ConstructLoop(l, msg, key, k + 1, r.data,
                                    Append(calls, StageCall(i, input, r.data, Nil)))

\* Listener.Construct(msg, key)
Construct(l, msg, key) ==
    ConstructLoop(l, msg, ConstructKey(l, key), 1, NilBytes, <<>>)

\* the loop of Deconstruct from its k-th iteration on
RECURSIVE DeconstructLoop(_, _, _, _, _)
DeconstructLoop(l, data, key, k, calls) ==
    LET n == Len(l.transformers)
        order == DeconstructOrder(n)
    IN  IF k > n
        THEN [msg |-> EmptyMsg,
              err |-> "unable to transform data into messages.Base structure",
              panic |-> FALSE, calls |-> calls]
        ELSE LET i == order[k]
                 transform == l.transformers[i]
                 r == StageDeconstruct(transform, data, key)
             IN  IF transform = NilTransformer
                 THEN [msg |-> EmptyMsg, err |-> Nil, panic |-> TRUE,
                       calls |-> Append(calls, StageCall(i, data, NilBytes, "panic"))]
                 ELSE IF r.err # Nil
                 THEN [msg |-> EmptyMsg, err |-> r.err, panic |-> FALSE,
                       calls |-> Append(calls, StageCall(i, data, r.ret, r.err))]
                 ELSE IF TypeOf(r.ret) = "[]uint8"
                 THEN DeconstructLoop(l, r.ret, key, k + 1,
                                      Append(calls, StageCall(i, data, r.ret, Nil)))
                 ELSE IF TypeOf(r.ret) = "messages.Base"
                 THEN [msg |-> r.ret, err |-> Nil, panic |-> FALSE,
                       calls |-> Append(calls, StageCall(i, data, r.ret, Nil))]
                 ELSE [msg |-> EmptyMsg, err |-> "unhandled data type for Deconstruct()",
                       panic |-> FALSE,
                       calls |-> Append(calls, StageCall(i, data, r.ret, Nil))]

\* Listener.Deconstruct(data, key)
Deconstruct(l, data, key) ==
    DeconstructLoop(l, data, DeconstructKey(l, key), 1, <<>>)

(***************************************************************************)
(* Listener.SetOption.                                                     *)
(***************************************************************************)
ListenerSetOptionRewritesBag(l, option, value) ==
    IF ToLower(option) = "name"
    THEN [err |-> Nil,
          listener |-> [l EXCEPT !.name = value,
                                 !.options = [Name |-> value] @@ l.options]]
    ELSE IF ToLower(option) = "description"
    THEN [err |-> Nil, listener |-> [l EXCEPT !.description = value]]
    ELSE [err |-> "unhandled option", listener |-> l]

ListenerSetOptionLoose(l, option, value) ==
    [err |-> Nil, listener |-> [l EXCEPT !.name = value]]

ListenerSetOption(l, option, value) ==
    IF ToLower(option) = "name"
    THEN [err |-> Nil, listener |-> [l EXCEPT !.name = value]]
    ELSE IF ToLower(option) = "description"
    THEN [err |-> Nil, listener |-> [l EXCEPT !.description = value]]
    ELSE [err |-> "unhandled option", listener |-> l]

(***************************************************************************)
(* Collaborators whose code is outside the sources at hand: the factories  *)
(* of the HTTP, SMB and UDP listeners, the HTTP server and the in-memory   *)
(* repositories.                                                           *)
(***************************************************************************)
RECURSIVE ParseTransforms(_, _)
ParseTransforms(names, acc) ==
    IF names = <<>> THEN [err |-> Nil, transformers |-> acc]
    ELSE LET transform == ToLower(Head(names))
         IN IF transform \in {"gob-base", "aes"}
            THEN ParseTransforms(Tail(names), Append(acc, transform))
            ELSE [err |-> "unhandled transform type", transformers |-> acc]

\* the factory steps every variant shares: Name, PSK, Transforms,
\* Authenticator, the retained options
NewListenerOfKind(kind, server, options, id) ==
    LET p == IF Has(options, "Transforms")
             THEN ParseTransforms(Split(options["Transforms"]), <<>>)
             ELSE [err |-> Nil, transformers |-> <<>>]
        l == [ZeroListener EXCEPT
                !.id = id, !.protocol = kind, !.server = server,
                !.name = Get(options, "Name"),
                !.description = Get(options, "Description"),
                !.psk = IF Get(options, "PSK") = "" THEN <<>>
                        ELSE Sum256(options["PSK"]),
                !.transformers = p.transformers,
                !.auth = IF ToLower(Get(options, "Authenticator")) = "opaque"
                         THEN "opaque" ELSE "none",
                !.options = options]
    IN  IF Get(options, "Name") = ""
        THEN [err |-> "a listener name must be provided", listener |-> ZeroListener]
        ELSE IF p.err # Nil THEN [err |-> p.err, listener |-> ZeroListener]
        ELSE [err |-> Nil, listener |-> l]

NewHTTPListener(server, options, id) == NewListenerOfKind(HTTP, server, options, id)
NewSMBListener(options, id) == NewListenerOfKind(SMB, NoServer, options, id)
NewUDPListener(options, id) == NewListenerOfKind(UDP, NoServer, options, id)

\* httpServer.New(options): the infrastructure-layer server, not yet started
NewHTTPServer(options, id) ==
    IF \/ (Has(options, "Interface") /\ ~ParseIPOk(options["Interface"]))
       \/ (Has(options, "Port") /\ ~AtoiOk(options["Port"]))
    THEN [err |-> "invalid server option", server |-> [id |-> 0, state |-> "Created"]]
    ELSE [err |-> Nil, server |-> [id |-> id, state |-> "Created"]]

\* the server repository: server id -> server
ServerRepoAdd(repo, server) == (server.id :> server) @@ repo

\* a listener repository: the stored listeners in the order they were added
RepoHas(repo, id) == \E i \in DOMAIN repo : repo[i].id = id

RepoAdd(repo, l) ==
    IF RepoHas(repo, l.id)
    THEN [i \in DOMAIN repo |-> IF repo[i].id = l.id THEN l ELSE repo[i]]
    ELSE Append(repo, l)

RepoListenerByID(repo, id) ==
    IF RepoHas(repo, id)
    THEN [err |-> Nil,
          listener |-> repo[CHOOSE i \in DOMAIN repo : repo[i].id = id]]
    ELSE [err |-> "listener not found", listener |-> ZeroListener]

\* the first stored listener of that name
RepoListenerByName(repo, name) ==
    IF \E i \in DOMAIN repo : repo[i].name = name
    THEN [err |-> Nil,
          listener |-> repo[CHOOSE i \in DOMAIN repo :
                              /\ repo[i].name = name
                              /\ \A j \in 1..(i - 1) : repo[j].name # name]]
    ELSE [err |-> "listener not found", listener |-> ZeroListener]

RepoListeners(repo) == repo

RepoRemoveByID(repo, id) ==
    IF RepoHas(repo, id)
    THEN [err |-> Nil, repo |-> SelectSeq(repo, LAMBDA l : l.id # id)]
    ELSE [err |-> "listener not found", repo |-> repo]

RepoSetOption(repo, id, option, value) ==
    IF ~RepoHas(repo, id) THEN [err |-> "listener not found", repo |-> repo]
    ELSE LET i == CHOOSE j \in DOMAIN repo : repo[j].id = id
             r == ListenerSetOption(repo[i], option, value)
         IN  [err |-> r.err, repo |-> [repo EXCEPT ![i] = r.listener]]

(***************************************************************************)
(* State.                                                                  *)
(***************************************************************************)
VARIABLES
    httpRepo,        \* ListenerService.httpRepo
    httpServerRepo,  \* ListenerService.httpServerRepo: server id -> server
    smbRepo,         \* ListenerService.smbRepo
    tcpRepo,         \* ListenerService.tcpRepo
    udpRepo,         \* ListenerService.udpRepo
    pending,         \* server id -> launched `go server.Start()` tasks not yet run
    nextId,          \* the next identifier uuid.NewV4 returns
    created,         \* id -> the listener NewListener returned for it
    removed,         \* the ids Remove has deleted so far
    last,            \* what the last service call returned
    listener,        \* the listener whose chain is exercised
    res,             \* the last Construct / Deconstruct call on it
    stopReturned,    \* the servers whose Stop has returned success with no
                     \* Start or Restart call issued since
    resumed,         \* the servers for which Start was called after such a
                     \* Stop, until a launched task of theirs has run
    inflight         \* caller -> the Construct / Deconstruct call it is in

repos == <<httpRepo, smbRepo, tcpRepo, udpRepo>>
svars == <<httpRepo, httpServerRepo, smbRepo, tcpRepo, udpRepo, pending,
           nextId, created, removed, last>>
cvars == <<listener, res>>
vars == <<httpRepo, httpServerRepo, smbRepo, tcpRepo, udpRepo, pending,
          nextId, created, removed, last, listener, res, stopReturned, resumed,
          inflight>>
hvars == <<stopReturned, resumed, inflight>>

(***************************************************************************)
(* Inputs.                                                                 *)
(***************************************************************************)
Loopback == "127.0.0.1"

OptionBags ==
    { [Protocol |-> "TCP", Name |-> "A", Interface |-> Loopback, Port |-> "7777",
       PSK |-> "merlin", Transforms |-> <<"aes", ",", "gob-base">>],
      [Protocol |-> "http", Name |-> "A", Interface |-> Loopback, Port |-> "80"],
      [Protocol |-> "HTTPS", Name |-> "", Interface |-> Loopback, Port |-> "80"],
      [Protocol |-> "http", Name |-> "B", Interface |-> Loopback, Port |-> "http"],
      [Protocol |-> "smb", Name |-> "B"],
      [Protocol |-> "UDP", Name |-> "A"],
      [Name |-> "A", Interface |-> Loopback, Port |-> "7777"],
      [Protocol |-> "bogus", Name |-> "A", Interface |-> Loopback, Port |-> "7777"],
      [Protocol |-> "tcp", Name |-> "A", Interface |-> "localhost", Port |-> "7777"] }

\* the bags that make a listener of each protocol
LifecycleBags == {o \in OptionBags : Get(o, "Name") = "A" /\ Get(o, "Port") \in {"7777", "80"}
                                      /\ Get(o, "Interface") = Loopback
                                      /\ Has(o, "Protocol") /\ o["Protocol"] # "bogus"}
                 \cup {o \in OptionBags : DOMAIN o = {"Protocol", "Name"} /\ o["Name"] # ""}

Ids == 1..MaxIds
Names == {"A", "B", "C"}
SetOptionInputs == {<<"NAME", "B">>, <<"Port", "80">>}

\* what a call returned: the error, whether it panicked, the listener if any
Return(op, err, panic, ret) == [op |-> op, err |-> err, panic |-> panic, ret |-> ret]

NoCall == Return("none", Nil, FALSE, <<>>)

\* a panic ends the process
Alive == ~last.panic

(***************************************************************************)
(* ListenerService.  A wrapped error fmt.Errorf("...: %s", err) is         *)
(* modelled by the message it wraps.                                       *)
(***************************************************************************)
NewV4Repeat == IF nextId > 1 THEN nextId - 1 ELSE nextId

\* uuid.NewV4(): an identifier no earlier call returned.  Identifiers of
\* objects that were dropped before anything stored them are not counted.
NewV4 == nextId

HTTPProtocols == {"http", "https", "h2c", "http2", "http3"}

ProtocolCaseDefaultTCP(options) ==
    IF ToLower(options["Protocol"]) \in HTTPProtocols \cup {"smb", "tcp", "udp"}
    THEN ToLower(options["Protocol"]) ELSE "tcp"

\* switch strings.ToLower(options["Protocol"])
ProtocolCase(options) == ToLower(options["Protocol"])

\* ListenerService.Listener(id)
ListenerNoUDP(id) ==
    IF RepoListenerByID(httpRepo, id).err = Nil THEN RepoListenerByID(httpRepo, id)
    ELSE IF RepoListenerByID(smbRepo, id).err = Nil THEN RepoListenerByID(smbRepo, id)
    ELSE IF RepoListenerByID(tcpRepo, id).err = Nil THEN RepoListenerByID(tcpRepo, id)
    ELSE [err |-> "could not find listener", listener |-> ZeroListener]

Listener(id) ==
    IF RepoListenerByID(httpRepo, id).err = Nil THEN RepoListenerByID(httpRepo, id)
    ELSE IF RepoListenerByID(smbRepo, id).err = Nil THEN RepoListenerByID(smbRepo, id)
    ELSE IF RepoListenerByID(tcpRepo, id).err = Nil THEN RepoListenerByID(tcpRepo, id)
    ELSE IF RepoListenerByID(udpRepo, id).err = Nil THEN RepoListenerByID(udpRepo, id)
    ELSE [err |-> "could not find listener", listener |-> ZeroListener]

ListenersTCPFirst ==
    RepoListeners(tcpRepo) \o RepoListeners(httpRepo)
        \o RepoListeners(smbRepo) \o RepoListeners(udpRepo)

\* ListenerService.Listeners()
Listeners ==
    RepoListeners(httpRepo) \o RepoListeners(smbRepo)
        \o RepoListeners(tcpRepo) \o RepoListeners(udpRepo)

\* ListenerService.ListenerNames()
ListenerNames ==
    [i \in DOMAIN RepoListeners(httpRepo) |-> RepoListeners(httpRepo)[i].name]
        \o [i \in DOMAIN RepoListeners(smbRepo) |-> RepoListeners(smbRepo)[i].name]
        \o [i \in DOMAIN RepoListeners(tcpRepo) |-> RepoListeners(tcpRepo)[i].name]
        \o [i \in DOMAIN RepoListeners(udpRepo) |-> RepoListeners(udpRepo)[i].name]

\* ListenerService.ListenersByType(protocol): every entry is `&listener`, the
\* address of the loop variable.  A build whose loops keep one variable for
\* all iterations (Go before 1.22) makes every entry point at it, and it
\* holds the last listener; a build with a variable per iteration makes
\* each entry point at its own listener.
ListenersByType(protocol, shared) ==
    LET list == IF protocol = HTTP THEN RepoListeners(httpRepo)
                ELSE IF protocol = SMB THEN RepoListeners(smbRepo)
                ELSE IF protocol = TCP THEN RepoListeners(tcpRepo)
                ELSE IF protocol = UDP THEN RepoListeners(udpRepo)
                ELSE <<>>
    IN  IF shared THEN [i \in DOMAIN list |-> list[Len(list)]] ELSE list

ListenerByNameTCPFirst(name) ==
    IF RepoListenerByName(tcpRepo, name).err = Nil
    THEN RepoListenerByName(tcpRepo, name)
    ELSE IF RepoListenerByName(httpRepo, name).err = Nil
    THEN RepoListenerByName(httpRepo, name)
    ELSE IF RepoListenerByName(smbRepo, name).err = Nil
    THEN RepoListenerByName(smbRepo, name)
    ELSE RepoListenerByName(udpRepo, name)

ListenerByNameNoUDP(name) ==
    IF RepoListenerByName(httpRepo, name).err = Nil
    THEN RepoListenerByName(httpRepo, name)
    ELSE IF RepoListenerByName(smbRepo, name).err = Nil
    THEN RepoListenerByName(smbRepo, name)
    ELSE RepoListenerByName(tcpRepo, name)

\* ListenerService.ListenerByName(name): the error of a miss is the one the
\* UDP repository, asked last, returned
ListenerByName(name) ==
    IF RepoListenerByName(httpRepo, name).err = Nil
    THEN RepoListenerByName(httpRepo, name)
    ELSE IF RepoListenerByName(smbRepo, name).err = Nil
    THEN RepoListenerByName(smbRepo, name)
    ELSE IF RepoListenerByName(tcpRepo, name).err = Nil
    THEN RepoListenerByName(tcpRepo, name)
    ELSE RepoListenerByName(udpRepo, name)

\* the repositories and the identifier counter, as NewListener leaves them
Stores == [http |-> httpRepo, servers |-> httpServerRepo, smb |-> smbRepo,
           tcp |-> tcpRepo, udp |-> udpRepo, nextId |-> nextId]

Failed(err, stores) == [err |-> err, ret |-> <<>>, stores |-> stores]
Created(l, stores) == [err |-> Nil, ret |-> <<l>>, stores |-> stores]

\* the body of ListenerService.NewListener(options)
NewListenerRun(options) ==
    IF ~Has(options, "Protocol")
    THEN Failed("the options map did not contain the Protocol key", Stores)
    ELSE IF ProtocolCase(options) \in HTTPProtocols
    THEN LET hServer == NewHTTPServer(options, NewV4)
             added == [Stores EXCEPT !.servers = ServerRepoAdd(@, hServer.server),
                                     !.nextId = @ + 1]
             hListener == NewHTTPListener(hServer.server.id, options, NewV4 + 1)
         IN  IF hServer.err # Nil THEN Failed(hServer.err, Stores)
             ELSE IF hListener.err # Nil THEN Failed(hListener.err, added)
             ELSE Created(hListener.listener,
                          [added EXCEPT !.http = RepoAdd(@, hListener.listener),
                                        !.nextId = @ + 1])
    ELSE IF ProtocolCase(options) = "smb"
    THEN LET sListener == NewSMBListener(options, NewV4)
         IN  IF sListener.err # Nil THEN Failed(sListener.err, Stores)
             ELSE Created(sListener.listener,
                          [Stores EXCEPT !.smb = RepoAdd(@, sListener.listener),
                                         !.nextId = @ + 1])
    ELSE IF ProtocolCase(options) = "tcp"
    THEN LET tListener == NewTCPListener(options, NewV4)
         IN  IF tListener.err # Nil THEN Failed(tListener.err, Stores)
             ELSE Created(tListener.listener,
                          [Stores EXCEPT !.tcp = RepoAdd(@, tListener.listener),
                                         !.nextId = @ + 1])
    ELSE IF ProtocolCase(options) = "udp"
    THEN LET uListener == NewUDPListener(options, NewV4)
         IN  IF uListener.err # Nil THEN Failed(uListener.err, Stores)
             ELSE Created(uListener.listener,
                          [Stores EXCEPT !.udp = RepoAdd(@, uListener.listener),
                                         !.nextId = @ + 1])
    ELSE Failed("unhandled server type", Stores)

\* ListenerService.NewListener(options)
NewListener(options) ==
    /\ Alive
    /\ LET r == NewListenerRun(options)
       IN  /\ r.stores.nextId <= MaxIds + 1
           /\ httpRepo' = r.stores.http
           /\ httpServerRepo' = r.stores.servers
           /\ smbRepo' = r.stores.smb
           /\ tcpRepo' = r.stores.tcp
           /\ udpRepo' = r.stores.udp
           /\ nextId' = r.stores.nextId
           /\ created' = IF r.err = Nil THEN (r.ret[1].id :> r.ret[1]) @@ created
                         ELSE created
           /\ last' = Return("NewListener", r.err, FALSE, r.ret)
    /\ UNCHANGED <<pending, removed, cvars>>

RemoveStopsServer(id) ==
    /\ Alive
    /\ LET l == Listener(id)
           protocol == l.listener.protocol
           r == IF protocol = HTTP THEN RepoRemoveByID(httpRepo, id)
                ELSE IF protocol = SMB THEN RepoRemoveByID(smbRepo, id)
                ELSE IF protocol = TCP THEN RepoRemoveByID(tcpRepo, id)
                ELSE RepoRemoveByID(udpRepo, id)
       IN  IF l.err # Nil
           THEN /\ last' = Return("Remove", l.err, FALSE, <<>>)
                /\ UNCHANGED <<httpRepo, smbRepo, tcpRepo, udpRepo, removed,
                               httpServerRepo>>
           ELSE /\ httpRepo' = IF protocol = HTTP THEN r.repo ELSE httpRepo
                /\ smbRepo' = IF protocol = SMB THEN r.repo ELSE smbRepo
                /\ tcpRepo' = IF protocol = TCP THEN r.repo ELSE tcpRepo
                /\ udpRepo' = IF protocol = UDP THEN r.repo ELSE udpRepo
                /\ httpServerRepo' =
                       IF protocol = HTTP
                       THEN [httpServerRepo EXCEPT ![l.listener.server].state = "Stopped"]
                       ELSE httpServerRepo
                /\ last' = Return("Remove", r.err, FALSE, <<>>)
                /\ removed' = IF r.err = Nil THEN removed \cup {id} ELSE removed
    /\ UNCHANGED <<pending, nextId, created, cvars>>

RemoveFromTCPOnly(id) ==
    /\ Alive
    /\ IF Listener(id).err # Nil
       THEN /\ last' = Return("Remove", Listener(id).err, FALSE, <<>>)
            /\ UNCHANGED <<tcpRepo, removed>>
       ELSE /\ tcpRepo' = RepoRemoveByID(tcpRepo, id).repo
            /\ last' = Return("Remove", Nil, FALSE, <<>>)
            /\ removed' = removed \cup {id}
    /\ UNCHANGED <<httpRepo, smbRepo, udpRepo, httpServerRepo, pending, nextId,
                   created, cvars>>

\* ListenerService.Remove(id)
Remove(id) ==
    /\ Alive
    /\ LET l == Listener(id)
           protocol == l.listener.protocol
           r == IF protocol = HTTP THEN RepoRemoveByID(httpRepo, id)
                ELSE IF protocol = SMB THEN RepoRemoveByID(smbRepo, id)
                ELSE IF protocol = TCP THEN RepoRemoveByID(tcpRepo, id)
                ELSE RepoRemoveByID(udpRepo, id)
       IN  IF l.err # Nil
           THEN /\ last' = Return("Remove", l.err, FALSE, <<>>)
                /\ UNCHANGED <<httpRepo, smbRepo, tcpRepo, udpRepo, removed>>
           ELSE IF protocol \notin {HTTP, SMB, TCP, UDP}
           THEN /\ last' = Return("Remove", "unhandled listener protocol type",
                                  FALSE, <<>>)
                /\ UNCHANGED <<httpRepo, smbRepo, tcpRepo, udpRepo, removed>>
           ELSE /\ httpRepo' = IF protocol = HTTP THEN r.repo ELSE httpRepo
                /\ smbRepo' = IF protocol = SMB THEN r.repo ELSE smbRepo
                /\ tcpRepo' = IF protocol = TCP THEN r.repo ELSE tcpRepo
                /\ udpRepo' = IF protocol = UDP THEN r.repo ELSE udpRepo
                /\ last' = Return("Remove", r.err, FALSE, <<>>)
                /\ removed' = IF r.err = Nil THEN removed \cup {id} ELSE removed
    /\ UNCHANGED <<httpServerRepo, pending, nextId, created, cvars>>

\* ListenerService.SetOption(id, option, value)
SetOption(id, option, value) ==
    /\ Alive
    /\ LET l == Listener(id)
           protocol == l.listener.protocol
           r == IF protocol = HTTP THEN RepoSetOption(httpRepo, id, option, value)
                ELSE IF protocol = SMB THEN RepoSetOption(smbRepo, id, option, value)
                ELSE IF protocol = TCP THEN RepoSetOption(tcpRepo, id, option, value)
                ELSE RepoSetOption(udpRepo, id, option, value)
       IN  IF l.err # Nil
           THEN /\ last' = Return("SetOption", l.err, FALSE, <<>>)
                /\ UNCHANGED <<httpRepo, smbRepo, tcpRepo, udpRepo>>
           ELSE IF protocol \notin {HTTP, SMB, TCP, UDP}
           THEN /\ last' = Return("SetOption", "unhandled protocol", FALSE, <<>>)
                /\ UNCHANGED <<httpRepo, smbRepo, tcpRepo, udpRepo>>
           ELSE /\ httpRepo' = IF protocol = HTTP THEN r.repo ELSE httpRepo
                /\ smbRepo' = IF protocol = SMB THEN r.repo ELSE smbRepo
                /\ tcpRepo' = IF protocol = TCP THEN r.repo ELSE tcpRepo
                /\ udpRepo' = IF protocol = UDP THEN r.repo ELSE udpRepo
                /\ last' = Return("SetOption", r.err, FALSE, <<>>)
    /\ UNCHANGED <<httpServerRepo, pending, nextId, created, removed, cvars>>

LaunchNothing(server) == pending

\* `go server.Start()`: one more launched task for the server
Launch(server) == [pending EXCEPT ![server] = @ + 1]

\* servers.ServerInterface.Stop(): the shutdown succeeds or fails
ServerStop(server, fails) ==
    IF fails THEN [err |-> "server stop failed", servers |-> httpServerRepo]
    ELSE [err |-> Nil,
          servers |-> [httpServerRepo EXCEPT ![server].state = "Stopped"]]

\* ListenerService.Start(id)
Start(id) ==
    /\ Alive
    /\ LET l == Listener(id)
           protocol == l.listener.protocol
       IN  IF l.err # Nil
           THEN /\ last' = Return("Start", l.err, FALSE, <<>>)
                /\ UNCHANGED pending
           ELSE IF protocol = HTTP
           THEN /\ pending[l.listener.server] < MaxPending
                /\ pending' = Launch(l.listener.server)
                /\ last' = Return("Start", Nil, FALSE, <<>>)
           ELSE IF protocol \in {SMB, TCP, UDP}
           THEN /\ last' = Return("Start", Nil, FALSE, <<>>)
                /\ UNCHANGED pending
           ELSE /\ last' = Return("Start", "unhandled listener protocol", FALSE, <<>>)
                /\ UNCHANGED pending
    /\ UNCHANGED <<httpRepo, httpServerRepo, smbRepo, tcpRepo, udpRepo, nextId,
                   created, removed, cvars>>

StopWithoutLookupError(id, fails) ==
    /\ Alive
    /\ LET l == Listener(id)
           stop == ServerStop(l.listener.server, fails)
       IN  IF l.err = Nil /\ l.listener.protocol = HTTP
           THEN /\ httpServerRepo' = stop.servers
                /\ last' = Return("Stop", stop.err, FALSE, <<>>)
           ELSE /\ last' = Return("Stop", Nil, FALSE, <<>>)
                /\ UNCHANGED httpServerRepo
    /\ UNCHANGED <<httpRepo, smbRepo, tcpRepo, udpRepo, pending, nextId, created,
                   removed, cvars>>

StopDropsError(id, fails) ==
    /\ Alive
    /\ LET l == Listener(id)
       IN  IF l.err # Nil
           THEN /\ last' = Return("Stop", l.err, FALSE, <<>>)
                /\ UNCHANGED httpServerRepo
           ELSE /\ httpServerRepo' = IF l.listener.protocol = HTTP
                                     THEN ServerStop(l.listener.server, fails).servers
                                     ELSE httpServerRepo
                /\ last' = Return("Stop", Nil, FALSE, <<>>)
    /\ UNCHANGED <<httpRepo, smbRepo, tcpRepo, udpRepo, pending, nextId, created,
                   removed, cvars>>

\* ListenerService.Stop(id); fails is the outcome of the server's shutdown
Stop(id, fails) ==
    /\ Alive
    /\ LET l == Listener(id)
           stop == ServerStop(l.listener.server, fails)
       IN  IF l.err # Nil
           THEN /\ last' = Return("Stop", l.err, FALSE, <<>>)
                /\ UNCHANGED httpServerRepo
           ELSE IF l.listener.protocol = HTTP
           THEN /\ httpServerRepo' = stop.servers
                /\ last' = Return("Stop", stop.err, FALSE, <<>>)
           ELSE /\ last' = Return("Stop", Nil, FALSE, <<>>)
                /\ UNCHANGED httpServerRepo
    /\ UNCHANGED <<httpRepo, smbRepo, tcpRepo, udpRepo, pending, nextId, created,
                   removed, cvars>>

RestartIgnoresStopError(id, fails) ==
    /\ Alive
    /\ LET l == Listener(id)
           stop == ServerStop(l.listener.server, fails)
       IN  IF l.err # Nil
           THEN /\ last' = Return("Restart", l.err, FALSE, <<>>)
                /\ UNCHANGED <<httpServerRepo, pending>>
           ELSE IF l.listener.server = NoServer
           THEN /\ last' = Return("Restart", Nil, TRUE, <<>>)
                /\ UNCHANGED <<httpServerRepo, pending>>
           ELSE /\ pending[l.listener.server] < MaxPending
                /\ httpServerRepo' = stop.servers
                /\ pending' = Launch(l.listener.server)
                /\ last' = Return("Restart", Nil, FALSE, <<>>)
    /\ UNCHANGED <<httpRepo, smbRepo, tcpRepo, udpRepo, nextId, created, removed,
                   cvars>>

\* ListenerService.Restart(id); `*listener.Server()` on the nil Server() of a
\* listener without an embedded server is a nil pointer dereference
Restart(id, fails) ==
    /\ Alive
    /\ LET l == Listener(id)
           stop == ServerStop(l.listener.server, fails)
       IN  IF l.err # Nil
           THEN /\ last' = Return("Restart", l.err, FALSE, <<>>)
                /\ UNCHANGED <<httpServerRepo, pending>>
           ELSE IF l.listener.server = NoServer
           THEN /\ last' = Return("Restart", Nil, TRUE, <<>>)
                /\ UNCHANGED <<httpServerRepo, pending>>
           ELSE IF stop.err # Nil
           THEN /\ httpServerRepo' = stop.servers
                /\ last' = Return("Restart", stop.err, FALSE, <<>>)
                /\ UNCHANGED pending
           ELSE /\ pending[l.listener.server] < MaxPending
                /\ httpServerRepo' = stop.servers
                /\ pending' = Launch(l.listener.server)
                /\ last' = Return("Restart", Nil, FALSE, <<>>)
    /\ UNCHANGED <<httpRepo, smbRepo, tcpRepo, udpRepo, nextId, created, removed,
                   cvars>>

\* the task `go server.Start()` launched: the server starts to serve, or
\* its Start returns an error that nobody receives
ServerStart(server, fails) ==
    /\ Alive
    /\ server \in DOMAIN httpServerRepo
    /\ pending[server] > 0
    /\ pending' = [pending EXCEPT ![server] = @ - 1]
    /\ httpServerRepo' = IF fails THEN httpServerRepo
                         ELSE [httpServerRepo EXCEPT ![server].state = "Running"]
    /\ last' = Return("ServerStart", IF fails THEN "server start failed" ELSE Nil,
                      FALSE, <<>>)
    /\ UNCHANGED <<httpRepo, smbRepo, tcpRepo, udpRepo, nextId, created, removed,
                   cvars>>

(***************************************************************************)
(* Specifications.  The registry calls (NewListener, Remove, SetOption)    *)
(* neither read nor write a server's state or the launched tasks, and the  *)
(* lifecycle calls (Start, Stop, Restart) write nothing else, so the two   *)
(* groups are explored separately: Spec runs the registry calls on every   *)
(* options bag, LifecycleSpec runs the lifecycle calls, with Remove, on    *)
(* the listeners the well-formed bags create.  ChainSpec runs Construct    *)
(* and Deconstruct on one TCP listener.                                    *)
(***************************************************************************)
NoResult == [op |-> "none", msg |-> EmptyMsg, key |-> NoKey, in |-> NilBytes,
             data |-> NilBytes, out |-> EmptyMsg, err |-> Nil, panic |-> FALSE,
             calls |-> <<>>]

\* the goroutines that call Construct and Deconstruct on one listener
Callers == {"c1", "c2"}

\* a caller that is in no call: op is the method, msg, in and arg are its
\* arguments, key, k and data are the locals key, the loop counter and data,
\* and out, err and panic are what the call returned once it is done
Idle == [op |-> "none", msg |-> EmptyMsg, in |-> NilBytes, arg |-> NoKey,
         key |-> NoKey, k |-> 0, data |-> NilBytes, out |-> EmptyMsg,
         err |-> Nil, panic |-> FALSE, done |-> FALSE]

Init ==
    /\ httpRepo = <<>>
    /\ httpServerRepo = NilMap
    /\ smbRepo = <<>>
    /\ tcpRepo = <<>>
    /\ udpRepo = <<>>
    /\ pending = [i \in Ids |-> 0]
    /\ nextId = 1
    /\ created = NilMap
    /\ removed = {}
    /\ last = NoCall
    /\ listener = ZeroListener
    /\ res = NoResult
    /\ stopReturned = {}
    /\ resumed = {}
    /\ inflight = [c \in Callers |-> Idle]

Next ==
    \/ \E options \in OptionBags : NewListener(options) /\ UNCHANGED hvars
    \/ \E id \in Ids : Remove(id) /\ UNCHANGED hvars
    \/ \E id \in Ids, o \in SetOptionInputs :
          SetOption(id, o[1], o[2]) /\ UNCHANGED hvars

Spec == Init /\ [][Next]_vars

\* the embedded server of a stored listener, NoServer if it has none
ServerOf(id) == Listener(id).listener.server

\* a Start or Restart call on the listener has been issued
Issued(id) == stopReturned \ {ServerOf(id)}

\* a Stop call on the listener has returned
Returned(id) ==
    IF last'.err = Nil /\ ServerOf(id) # NoServer
    THEN stopReturned \cup {ServerOf(id)} ELSE stopReturned

\* a Start call on the listener has been issued after a returned Stop
Resumed(id) ==
    IF ServerOf(id) \in stopReturned THEN resumed \cup {ServerOf(id)} ELSE resumed

LifecycleNext ==
    \/ \E options \in LifecycleBags : NewListener(options) /\ UNCHANGED hvars
    \/ \E id \in Ids : Remove(id) /\ UNCHANGED hvars
    \/ \E id \in Ids :
          /\ Start(id) /\ stopReturned' = Issued(id) /\ resumed' = Resumed(id)
          /\ UNCHANGED inflight
    \/ \E id \in Ids, fails \in BOOLEAN :
          /\ Stop(id, fails) /\ stopReturned' = Returned(id)
          /\ UNCHANGED <<resumed, inflight>>
    \/ \E id \in Ids, fails \in BOOLEAN :
          /\ Restart(id, fails) /\ stopReturned' = Issued(id)
          /\ UNCHANGED <<resumed, inflight>>
    \/ \E server \in Ids, fails \in BOOLEAN :
          /\ ServerStart(server, fails)
          /\ resumed' = resumed \ {server}
          /\ UNCHANGED <<stopReturned, inflight>>

LifecycleSpec == Init /\ [][LifecycleNext]_vars

\* the Go scheduler runs every launched goroutine
LaunchedTaskRuns(server) ==
    \E fails \in BOOLEAN :
        /\ ServerStart(server, fails)
        /\ resumed' = resumed \ {server}
        /\ UNCHANGED <<stopReturned, inflight>>

LifecycleFairSpec ==
    LifecycleSpec /\ \A server \in Ids : WF_vars(LaunchedTaskRuns(server))

(***************************************************************************)
(* The TCP listeners of the service: NewListener on bags that the TCP      *)
(* factory accepts and on bags it rejects, SetOption on every option name, *)
(* and Authenticate on the stored listeners.                               *)
(***************************************************************************)
\* number of NewListener calls that store a listener
MaxTCP == 2

TCPBase == [Protocol |-> "tcp", Name |-> "A", Interface |-> Loopback, Port |-> "7777"]

TCPGoodBags ==
    { TCPBase @@ [PSK |-> "merlin", Transforms |-> <<"aes", ",", "gob-base">>,
                  Authenticator |-> "OPAQUE"],
      TCPBase @@ [PSK |-> "", Authenticator |-> "basic"],
      TCPBase }

TCPBadBags ==
    { [Protocol |-> "tcp", Name |-> "", Interface |-> Loopback, Port |-> "7777"],
      [Protocol |-> "tcp", Interface |-> Loopback, Port |-> "7777"],
      [Protocol |-> "tcp", Name |-> "A", Port |-> "7777"],
      [Protocol |-> "tcp", Name |-> "A", Interface |-> "localhost", Port |-> "7777"],
      [Protocol |-> "TCP", Name |-> "A", Interface |-> Loopback],
      [Protocol |-> "tcp", Name |-> "A", Interface |-> Loopback, Port |-> "http"],
      TCPBase @@ [Transforms |-> <<"aes", ",", "rot13">>],
      TCPBase @@ [Transforms |-> <<>>] }

TCPBags == TCPGoodBags \cup TCPBadBags

OptionNames == {"Name", "DESCRIPTION", "Interface", "Port", "Transforms", "Protocol",
                "PSK"}

\* Listener.Authenticate(id, data): the call is handed to l.auth, and a call
\* on the nil authenticator is a nil pointer dereference
ListenerAuthenticate(l) ==
    IF l.auth = NilAuth THEN [err |-> Nil, panic |-> TRUE]
    ELSE [err |-> Nil, panic |-> FALSE]

\* a call of Authenticate on a stored TCP listener
Authenticate(id) ==
    /\ Alive
    /\ RepoHas(tcpRepo, id)
    /\ LET r == ListenerAuthenticate(RepoListenerByID(tcpRepo, id).listener)
       IN  last' = Return("Authenticate", r.err, r.panic, <<>>)
    /\ UNCHANGED <<httpRepo, httpServerRepo, smbRepo, tcpRepo, udpRepo, pending,
                   nextId, created, removed, cvars>>

TCPNext ==
    \/ \E options \in TCPBags :
          nextId <= MaxTCP /\ NewListener(options) /\ UNCHANGED hvars
    \/ \E id \in Ids, option \in OptionNames :
          SetOption(id, option, "B") /\ UNCHANGED hvars
    \/ \E id \in Ids : Authenticate(id) /\ UNCHANGED hvars

TCPSpec == Init /\ [][TCPNext]_vars

(***************************************************************************)
(* The chain of one TCP listener.                                          *)
(***************************************************************************)
ChainBase == [Protocol |-> "tcp", Name |-> "T1", Interface |-> Loopback,
              Port |-> "7777"]

ChainBags ==
    { ChainBase,
      ChainBase @@ [PSK |-> "merlin", Transforms |-> <<"aes", ",", "gob-base">>],
      ChainBase @@ [PSK |-> "merlin", Transforms |-> <<"gob-base">>],
      ChainBase @@ [PSK |-> "merlin", Transforms |-> <<"gob-base", ",", "aes">>],
      ChainBase @@ [Transforms |-> <<"AES", ",", "gob-base">>],
      ChainBase @@ [Transforms |-> <<"gob-base", ",", "aes">>],
      ChainBase @@ [PSK |-> "merlin",
                    Transforms |-> <<"aes", ",", "gob-delegate", ",", "gob-base">>],
      ChainBase @@ [PSK |-> "merlin",
                    Transforms |-> <<"aes", ",", "aes", ",", "gob-base">>],
      ChainBase @@ [PSK |-> "merlin", Transforms |-> <<"gob-delegate">>] }

Messages == {Msg("m1"), Msg("m2")}
Keys == {NoKey, <<"k1">>, <<"k2">>}

\* what an agent may send: anything Construct produced, or other bytes
DeconstructInputs(l) ==
    {Construct(l, m, k).data : m \in Messages, k \in Keys} \cup {Raw("junk")}

\* a call of Listener.Construct(msg, key) on the listener
ConstructCall(msg, key) ==
    /\ ~res.panic
    /\ LET r == Construct(listener, msg, key)
       IN  res' = [op |-> "Construct", msg |-> msg, key |-> key, in |-> NilBytes,
                   data |-> r.data, out |-> EmptyMsg, err |-> r.err,
                   panic |-> r.panic, calls |-> r.calls]
    /\ UNCHANGED <<svars, listener>>

\* a call of Listener.Deconstruct(data, key) on the listener
DeconstructCall(data, key) ==
    /\ ~res.panic
    /\ LET r == Deconstruct(listener, data, key)
       IN  res' = [op |-> "Deconstruct", msg |-> EmptyMsg, key |-> key, in |-> data,
                   data |-> NilBytes, out |-> r.msg, err |-> r.err,
                   panic |-> r.panic, calls |-> r.calls]
    /\ UNCHANGED <<svars, listener>>

ChainInit ==
    /\ httpRepo = <<>>
    /\ httpServerRepo = NilMap
    /\ smbRepo = <<>>
    /\ tcpRepo = <<>>
    /\ udpRepo = <<>>
    /\ pending = [i \in Ids |-> 0]
    /\ nextId = 1
    /\ created = NilMap
    /\ removed = {}
    /\ last = NoCall
    /\ listener \in {NewTCPListener(o, 1).listener : o \in ChainBags}
    /\ res = NoResult
    /\ stopReturned = {}
    /\ resumed = {}
    /\ inflight = [c \in Callers |-> Idle]

ChainNext ==
    \/ \E msg \in Messages, key \in Keys : ConstructCall(msg, key) /\ UNCHANGED hvars
    \/ \E data \in DeconstructInputs(listener), key \in Keys :
          DeconstructCall(data, key) /\ UNCHANGED hvars

ChainSpec == ChainInit /\ [][ChainNext]_vars

(***************************************************************************)
(* The peer-to-peer (TCP) listeners through their whole life: created,     *)
(* renamed, started, stopped, and used to construct and deconstruct.       *)
(***************************************************************************)
ListenerStatusOfServer(l) == IF l.server = NoServer THEN "Stopped" ELSE "Created"

\* Listener.Status(), Listener.Protocol(), Listener.Server(), Listener.Name()
ListenerStatus(l) == "Created"
ListenerProtocol(l) == TCP
ListenerServer(l) == NoServer
ListenerName(l) == l.name
ListenerOptions(l) == l.options

T1Options == ChainBase @@ [PSK |-> "merlin", Transforms |-> <<"aes", ",", "gob-base">>]

PeerBags == {T1Options, TCPBase}

PeerOptions == {"Name", "Description", "Port"}

\* Construct(msg, key) on the listener the service returns for id
PeerConstruct(id, msg, key) ==
    /\ Alive /\ ~res.panic
    /\ RepoHas(tcpRepo, id)
    /\ LET r == Construct(Listener(id).listener, msg, key)
       IN  res' = [op |-> "Construct", msg |-> msg, key |-> key, in |-> NilBytes,
                   data |-> r.data, out |-> EmptyMsg, err |-> r.err,
                   panic |-> r.panic, calls |-> r.calls]
    /\ UNCHANGED <<svars, listener>>

\* Deconstruct(data, key) on the listener the service returns for id
PeerDeconstruct(id, data, key) ==
    /\ Alive /\ ~res.panic
    /\ RepoHas(tcpRepo, id)
    /\ LET r == Deconstruct(Listener(id).listener, data, key)
       IN  res' = [op |-> "Deconstruct", msg |-> EmptyMsg, key |-> key, in |-> data,
                   data |-> NilBytes, out |-> r.msg, err |-> r.err,
                   panic |-> r.panic, calls |-> r.calls]
    /\ UNCHANGED <<svars, listener>>

PeerNext ==
    \/ \E options \in PeerBags :
          nextId <= MaxTCP /\ NewListener(options) /\ UNCHANGED hvars
    \/ \E id \in Ids, option \in PeerOptions :
          SetOption(id, option, "B") /\ UNCHANGED hvars
    \/ \E id \in Ids : Start(id) /\ UNCHANGED hvars
    \/ \E id \in Ids : Stop(id, FALSE) /\ UNCHANGED hvars
    \/ \E id \in Ids : PeerConstruct(id, Msg("m1"), NoKey) /\ UNCHANGED hvars
    \/ \E id \in Ids :
          \E data \in {Construct(Listener(id).listener, Msg("m1"), NoKey).data,
                       Raw("junk")} :
              PeerDeconstruct(id, data, NoKey) /\ UNCHANGED hvars

PeerSpec == Init /\ [][PeerNext]_vars

(***************************************************************************)
(* The default options.  A Go map keeps no order: what a caller sees of    *)
(* the returned map's order is the order in which its `range` yields the   *)
(* keys, and the runtime starts a range at a position of its own choice.   *)
(***************************************************************************)
\* listeners.FromString(kind)
FromString(kind) ==
    IF ToLower(kind) \in HTTPProtocols THEN HTTP
    ELSE IF ToLower(kind) = "tcp" THEN TCP
    ELSE UNKNOWN

\* tcp.DefaultOptions()
TCPDefaultOptions ==
    [Name |-> "My TCP Listener", Description |-> "Default TCP Listener",
     Interface |-> "127.0.0.1", Port |-> "7777", PSK |-> "merlin",
     Transforms |-> <<"aes", ",", "gob-base">>, Protocol |-> "TCP",
     Authenticator |-> "OPAQUE"]

\* the default bags of the other listeners and of the HTTP server
HTTPDefaultOptions ==
    [Name |-> "My HTTP Listener", Description |-> "Default HTTP Listener",
     PSK |-> "merlin", Protocol |-> "HTTP"]
SMBDefaultOptions == [Name |-> "My SMB Listener", Protocol |-> "SMB"]
UDPDefaultOptions == [Name |-> "My UDP Listener", Protocol |-> "UDP"]
GetDefaultOptions(protocol) ==
    [Interface |-> Loopback, Port |-> "80", Protocol |-> ToLower(protocol)]

\* the option names in the order of sort.Strings (bytewise)
KeyOrder == <<"Authenticator", "Description", "Interface", "Name", "PSK", "Port",
              "Protocol", "Transforms">>

\* sort.Strings(keys)
SortStrings(keys) == SelectSeq(KeyOrder, LAMBDA key : key \in keys)

\* the loop `for k, v := range serverOptions { listenerOptions[k] = v }`
AddServerOptions(listenerOptions, serverOptions) == serverOptions @@ listenerOptions

\* the body of ListenerService.DefaultOptions(protocol): the error, the
\* returned map and the order in which its keys were inserted
DefaultOptionsRun(protocol) ==
    LET kind == FromString(protocol)
        listenerOptions == IF kind = HTTP THEN HTTPDefaultOptions
                           ELSE IF kind = SMB THEN SMBDefaultOptions
                           ELSE IF kind = TCP THEN TCPDefaultOptions
                           ELSE UDPDefaultOptions
        serverOptions == IF kind = HTTP THEN GetDefaultOptions(protocol) ELSE NilMap
        merged == AddServerOptions(listenerOptions, serverOptions)
    IN  IF kind \notin {HTTP, SMB, TCP, UDP}
        THEN [err |-> "unhandled server type", options |-> NilMap, keys |-> <<>>]
        ELSE [err |-> Nil, options |-> merged, keys |-> SortStrings(DOMAIN merged)]

\* a range over a map built by inserting keys: from any position, around
RangeOrders(keys) ==
    {[i \in 1..Len(keys) |-> keys[((i + n - 1) % Len(keys)) + 1]] : n \in 0..(Len(keys) - 1)}

DefaultProtocols == {"tcp", "TCP", "http", "HTTPS", "smb", "udp", "bogus"}

\* ListenerService.DefaultOptions(protocol), and the caller's range over the
\* map it returns
DefaultOptions(protocol) ==
    /\ Alive
    /\ LET r == DefaultOptionsRun(protocol)
       IN  IF r.err # Nil
           THEN last' = Return("DefaultOptions", r.err, FALSE, <<>>)
           ELSE \E order \in RangeOrders(r.keys) :
                   last' = Return("DefaultOptions", Nil, FALSE, <<r.options, order>>)
    /\ UNCHANGED <<httpRepo, httpServerRepo, smbRepo, tcpRepo, udpRepo, pending,
                   nextId, created, removed, cvars>>

\* the defaults are handed to NewListener
NewListenerFromDefaults ==
    /\ last.op = "DefaultOptions" /\ last.err = Nil
    /\ NewListener(last.ret[1])

OptionsNext ==
    \/ \E protocol \in DefaultProtocols : DefaultOptions(protocol) /\ UNCHANGED hvars
    \/ NewListenerFromDefaults /\ UNCHANGED hvars
    \/ \E id \in Ids : Remove(id) /\ UNCHANGED hvars

OptionsSpec == Init /\ [][OptionsNext]_vars

(***************************************************************************)
(* Concurrent calls of Construct and Deconstruct on one listener: each     *)
(* caller runs its call one loop iteration at a time, and the iterations   *)
(* of the callers interleave.  A panic in any call ends the process.       *)
(***************************************************************************)
ConcurrentKeys == {NoKey, <<"k1">>}

NoPanic == \A c \in Callers : ~inflight[c].panic

\* the caller is in no call, or its call has returned
Free(c) == inflight[c].op = "none" \/ inflight[c].done

BeginConstructStoresKey(c, msg, key) ==
    /\ NoPanic /\ Free(c)
    /\ inflight' = [inflight EXCEPT ![c] =
                       [Idle EXCEPT !.op = "Construct", !.msg = msg, !.arg = key,
                                    !.key = ConstructKey(listener, key), !.k = 1]]
    /\ listener' = [listener EXCEPT !.psk = ConstructKey(listener, key)]
    /\ UNCHANGED <<svars, res, stopReturned, resumed>>

\* Construct up to its loop: the key is defaulted to the listener's
BeginConstruct(c, msg, key) ==
    /\ NoPanic /\ Free(c)
    /\ inflight' = [inflight EXCEPT ![c] =
                       [Idle EXCEPT !.op = "Construct", !.msg = msg, !.arg = key,
                                    !.key = ConstructKey(listener, key), !.k = 1]]
    /\ UNCHANGED <<svars, cvars, stopReturned, resumed>>

\* one iteration of the loop of Construct, or its return after the last
ConstructStep(c) ==
    /\ NoPanic
    /\ inflight[c].op = "Construct" /\ ~inflight[c].done
    /\ LET call == inflight[c]
           n == Len(listener.transformers)
           i == ConstructOrder(n)[call.k]
           t == listener.transformers[i]
           input == IF i = n THEN call.msg ELSE call.data
           r == StageConstruct(t, input, call.key)
       IN  inflight' = [inflight EXCEPT ![c] =
               IF call.k > n THEN [call EXCEPT !.done = TRUE]
               ELSE IF t = NilTransformer
               THEN [call EXCEPT !.done = TRUE, !.panic = TRUE, !.data = NilBytes]
               ELSE IF r.err # Nil
               THEN [call EXCEPT !.done = TRUE, !.data = NilBytes,
                        !.err = "error calling the transformer construct function"]
               ELSE [call EXCEPT !.k = @ + 1, !.data = r.data]]
    /\ UNCHANGED <<svars, cvars, stopReturned, resumed>>

\* Deconstruct up to its loop
BeginDeconstruct(c, data, key) ==
    /\ NoPanic /\ Free(c)
    /\ inflight' = [inflight EXCEPT ![c] =
                       [Idle EXCEPT !.op = "Deconstruct", !.in = data, !.arg = key,
                                    !.data = data,
                                    !.key = DeconstructKey(listener, key), !.k = 1]]
    /\ UNCHANGED <<svars, cvars, stopReturned, resumed>>

\* one iteration of the loop of Deconstruct, or its return after the last
DeconstructStep(c) ==
    /\ NoPanic
    /\ inflight[c].op = "Deconstruct" /\ ~inflight[c].done
    /\ LET call == inflight[c]
           n == Len(listener.transformers)
           transform == listener.transformers[DeconstructOrder(n)[call.k]]
           r == StageDeconstruct(transform, call.data, call.key)
       IN  inflight' = [inflight EXCEPT ![c] =
               IF call.k > n
               THEN [call EXCEPT !.done = TRUE, !.err =
                        "unable to transform data into messages.Base structure"]
               ELSE IF transform = NilTransformer
               THEN [call EXCEPT !.done = TRUE, !.panic = TRUE]
               ELSE IF r.err # Nil
               THEN [call EXCEPT !.done = TRUE, !.err = r.err]
               ELSE IF TypeOf(r.ret) = "[]uint8"
               THEN [call EXCEPT !.k = @ + 1, !.data = r.ret]
               ELSE IF TypeOf(r.ret) = "messages.Base"
               THEN [call EXCEPT !.done = TRUE, !.out = r.ret]
               ELSE [call EXCEPT !.done = TRUE,
                                 !.err = "unhandled data type for Deconstruct()"]]
    /\ UNCHANGED <<svars, cvars, stopReturned, resumed>>

\* what an agent may send to the listener
ConcurrentInputs ==
    {Construct(listener, m, k).data : m \in Messages, k \in ConcurrentKeys}
        \cup {Raw("junk")}

ConcurrentNext ==
    \/ \E c \in Callers, msg \in Messages, key \in ConcurrentKeys :
          BeginConstruct(c, msg, key)
    \/ \E c \in Callers : ConstructStep(c)
    \/ \E c \in Callers, data \in ConcurrentInputs, key \in ConcurrentKeys :
          BeginDeconstruct(c, data, key)
    \/ \E c \in Callers : DeconstructStep(c)

ConcurrentSpec == ChainInit /\ [][ConcurrentNext]_vars

(***************************************************************************)
(* Every call of the service that takes an id, on HTTP and TCP listeners:  *)
(* the ids of Ids that no repository holds are the unknown ones.           *)
(***************************************************************************)
ServiceBags == {o \in LifecycleBags : FromString(o["Protocol"]) # UNKNOWN}

ServiceNext ==
    \/ \E options \in ServiceBags : NewListener(options) /\ UNCHANGED hvars
    \/ \E id \in Ids : Remove(id) /\ UNCHANGED hvars
    \/ \E id \in Ids : SetOption(id, "NAME", "B") /\ UNCHANGED hvars
    \/ \E id \in Ids : Start(id) /\ UNCHANGED hvars
    \/ \E id \in Ids, fails \in BOOLEAN : Stop(id, fails) /\ UNCHANGED hvars
    \/ \E id \in Ids, fails \in BOOLEAN : Restart(id, fails) /\ UNCHANGED hvars
    \/ \E server \in Ids : ServerStart(server, FALSE) /\ UNCHANGED hvars

ServiceSpec == Init /\ [][ServiceNext]_vars

(***************************************************************************)
(* Properties of the transform chain (ChainSpec).                          *)
(***************************************************************************)
\* res is the outcome of Deconstruct on the payload Construct(m, k) returned,
\* called with the same key k
DeconstructOfConstruct(m, k) ==
    LET c == Construct(listener, m, k)
    IN  /\ c.err = Nil /\ ~c.panic
        /\ res.op = "Deconstruct" /\ res.in = c.data /\ res.key = k

\* C1, as stated: for a listener with any configured chain, any message m
\* and any key k, Deconstruct(Construct(m, k), k) returns m without error.
C1_RoundTripAnyChain ==
    \A m \in Messages, k \in Keys :
        DeconstructOfConstruct(m, k) => (res.err = Nil /\ ~res.panic /\ res.out = m)

\* C1, amended: for a listener whose chain has at least one stage, any
\* message m and any key k, Deconstruct(Construct(m, k), k) returns m without
\* error.
C1_RoundTrip ==
    \A m \in Messages, k \in Keys :
        (Len(listener.transformers) > 0 /\ DeconstructOfConstruct(m, k))
            => (res.err = Nil /\ ~res.panic /\ res.out = m)

C1_Witness ==
    /\ listener.transformers = <<"aes", "gob-base">>
    /\ \E m \in Messages : DeconstructOfConstruct(m, NoKey) /\ res.out = m
    /\ res.err = Nil

\* C2: Construct invokes the stages last-configured first, the first on the
\* message and each next one on the output of the one before, and returns
\* the output of the first-configured stage; Deconstruct invokes them
\* first-configured first, the first on the payload and each next one on the
\* output of the one before; no stage is invoked twice in one call.
C2_StageOrder ==
    LET n == Len(listener.transformers)
        c == res.calls
    IN  /\ Len(c) <= n
        /\ \A i, j \in 1..Len(c) : i # j => c[i].stage # c[j].stage
        /\ res.op = "Construct" =>
             /\ \A j \in 1..Len(c) :
                   /\ c[j].stage = n - j + 1
                   /\ c[j].input = IF j = 1 THEN res.msg ELSE c[j - 1].output
             /\ (res.err = Nil /\ ~res.panic) =>
                   (Len(c) = n /\ (n > 0 => res.data = c[n].output /\ c[n].stage = 1))
        /\ res.op = "Deconstruct" =>
             \A j \in 1..Len(c) :
                   /\ c[j].stage = j
                   /\ c[j].input = IF j = 1 THEN res.in ELSE c[j - 1].output

C2_Witness ==
    /\ res.op = "Construct"
    /\ Len(listener.transformers) = 3
    /\ Len(res.calls) = 3
    /\ res.err = Nil
    /\ res.calls[1].input \in Messages

(***************************************************************************)
(* Properties of the registry calls (Spec).                                *)
(***************************************************************************)
\* the listeners one repository holds, by id
IdsIn(repo) == {repo[i].id : i \in DOMAIN repo}
StoredIds == IdsIn(httpRepo) \cup IdsIn(smbRepo) \cup IdsIn(tcpRepo) \cup IdsIn(udpRepo)
NamesIn(repo) == {repo[i].name : i \in DOMAIN repo}

\* C3: whenever NewListener returns an error, every repository, the server
\* repository included, holds exactly the entries it held before the call.
C3_AllOrNothing ==
    [][(last'.op = "NewListener" /\ last'.err # Nil)
          => UNCHANGED <<httpRepo, smbRepo, tcpRepo, udpRepo, httpServerRepo>>]_vars

\* the bag has no Protocol key, or a value that names no protocol
BadProtocol(options) ==
    \/ ~Has(options, "Protocol")
    \/ ToLower(options["Protocol"]) \notin
           {"http", "https", "h2c", "http2", "http3", "smb", "tcp", "udp"}

\* C4: NewListener on a bag without a Protocol key, or with a Protocol value
\* that is none of http, https, h2c, http2, http3, smb, tcp, udp in any
\* letter case, returns an error and no listener, and Listeners() returns
\* after the call what it returned before.
C4_BadProtocolRejected ==
    [][\A options \in OptionBags :
          (BadProtocol(options) /\ NewListener(options))
             => (last'.err # Nil /\ last'.ret = <<>> /\ Listeners' = Listeners)]_vars

C4_Witness ==
    /\ last.op = "NewListener"
    /\ last.err = "the options map did not contain the Protocol key"
    /\ last.ret = <<>>
    /\ Len(Listeners) = 2

\* the kind of listener a Protocol value selects
KindOf(options) ==
    LET p == ToLower(options["Protocol"])
    IN  IF p \in {"http", "https", "h2c", "http2", "http3"} THEN HTTP
        ELSE IF p = "smb" THEN SMB
        ELSE IF p = "tcp" THEN TCP
        ELSE IF p = "udp" THEN UDP
        ELSE UNKNOWN

RepoOfKind(kind) ==
    IF kind = HTTP THEN httpRepo
    ELSE IF kind = SMB THEN smbRepo
    ELSE IF kind = TCP THEN tcpRepo
    ELSE udpRepo

\* a successful NewListener adds the returned listener to the repository of
\* the protocol its Protocol option selects and to no other, and a server to the server
\* repository exactly for an HTTP listener
C5_Stored ==
    (last'.op = "NewListener" /\ last'.err = Nil) =>
        \E kind \in {HTTP, SMB, TCP, UDP} :
            LET l == last'.ret[1]
            IN  /\ kind = KindOf(l.options)
                /\ l.protocol = kind
                /\ l.id \notin StoredIds
                /\ RepoOfKind(kind)' = Append(RepoOfKind(kind), l)
                /\ \A other \in {HTTP, SMB, TCP, UDP} \ {kind} :
                      RepoOfKind(other)' = RepoOfKind(other)
                /\ IF kind = HTTP
                   THEN /\ l.server \in DOMAIN httpServerRepo'
                        /\ l.server \notin DOMAIN httpServerRepo
                   ELSE httpServerRepo' = httpServerRepo

\* a listener that was created and not removed is found under its id, with
\* the id and the protocol it was returned with
C5_Found ==
    \A id \in DOMAIN created \ removed :
        /\ Listener(id).err = Nil
        /\ Listener(id).listener.id = created[id].id
        /\ Listener(id).listener.protocol = created[id].protocol

\* the name of a stored listener changes only in a successful SetOption
C5_NameKept ==
    \A id \in DOMAIN created \ removed :
        (id \notin removed' /\ Listener(id).listener.name # Listener(id)'.listener.name)
            => (last'.op = "SetOption" /\ last'.err = Nil)

\* C5, as stated: from its creation until it is removed, Listener(id) finds
\* a listener with the id, the name and the protocol NewListener returned.
C5_FoundWithSameName ==
    \A id \in DOMAIN created \ removed :
        /\ Listener(id).err = Nil
        /\ Listener(id).listener.id = created[id].id
        /\ Listener(id).listener.protocol = created[id].protocol
        /\ Listener(id).listener.name = created[id].name

\* C5, amended: a successful NewListener stores the new listener in exactly
\* one repository, the one of the protocol selected by the Protocol option,
\* and from then until it is removed Listener(id) finds a listener with that
\* same id and protocol, and with that same name until a successful
\* SetOption changes the name; an HTTP-family listener additionally has its
\* server registered in the server repository, and no other protocol adds a
\* server.
C5_StoredAndFound ==
    [][C5_Stored /\ C5_NameKept]_vars /\ []C5_Found

C5_Witness ==
    /\ last.op = "NewListener" /\ last.err = Nil
    /\ last.ret[1].protocol = HTTP
    /\ last.ret[1].server \in DOMAIN httpServerRepo
    /\ Listener(last.ret[1].id).listener = last.ret[1]
    /\ \E id \in DOMAIN created \ removed :
          Listener(id).listener.name # created[id].name

\* C6: no two listeners held in the four repositories share an id, and no
\* call changes the id of a stored listener: SetOption leaves the stored ids
\* as they are, NewListener only adds one, Remove only takes one away.
C6_Unique ==
    \A i, j \in DOMAIN Listeners : i # j => Listeners[i].id # Listeners[j].id

C6_IdsKept ==
    LET before == [i \in DOMAIN Listeners |-> Listeners[i].id]
        after == [i \in DOMAIN Listeners' |-> Listeners'[i].id]
    IN  /\ last'.op = "SetOption" => after = before
        /\ last'.op = "NewListener" =>
              \A id \in StoredIds : id \in StoredIds'
        /\ last'.op = "Remove" => StoredIds' \subseteq StoredIds

C6_IdUniqueness == []C6_Unique /\ [][C6_IdsKept]_vars

C6_Witness ==
    /\ Len(Listeners) = 3
    /\ Len(tcpRepo) = 2
    /\ last.op = "SetOption" /\ last.err = Nil
    /\ removed = {}

\* C7: once Remove(id) has returned success, Listener(id) returns a
\* not-found error ever after, and the Remove leaves every other stored
\* listener in place, returned by Listener and by Listeners as before.
C7_Gone ==
    \A id \in removed : Listener(id).err # Nil

C7_OthersKept ==
    \A id \in Ids :
        (Remove(id) /\ last'.err = Nil) =>
            /\ \A other \in StoredIds \ {id} : Listener(other)' = Listener(other)
            /\ Listeners' = SelectSeq(Listeners, LAMBDA l : l.id # id)

C7_RemovedStaysGone == []C7_Gone /\ [][C7_OthersKept]_vars

C7_Witness ==
    /\ last.op = "Remove" /\ last.err = Nil
    /\ removed # {}
    /\ Len(Listeners) = 2
    /\ nextId > MaxIds

\* the listeners of a repository that have the name
Named(repo, name) == {repo[i] : i \in {j \in DOMAIN repo : repo[j].name = name}}

\* C8: ListenerByName(name) returns a listener of that name from the first
\* of the repositories HTTP, SMB, TCP, UDP that holds one; with the name in
\* the HTTP repository and in another one, the HTTP listener is returned.
C8_FirstRepository ==
    \A name \in Names :
        LET r == ListenerByName(name)
        IN  /\ Named(httpRepo, name) # {} =>
                 (r.err = Nil /\ r.listener \in Named(httpRepo, name))
            /\ (Named(httpRepo, name) = {} /\ Named(smbRepo, name) # {}) =>
                 (r.err = Nil /\ r.listener \in Named(smbRepo, name))
            /\ (Named(httpRepo, name) = {} /\ Named(smbRepo, name) = {}
                  /\ Named(tcpRepo, name) # {}) =>
                 (r.err = Nil /\ r.listener \in Named(tcpRepo, name))
            /\ (Named(httpRepo, name) = {} /\ Named(smbRepo, name) = {}
                  /\ Named(tcpRepo, name) = {} /\ Named(udpRepo, name) # {}) =>
                 (r.err = Nil /\ r.listener \in Named(udpRepo, name))

C8_Witness ==
    /\ Named(httpRepo, "A") # {}
    /\ Named(tcpRepo, "A") # {}
    /\ ListenerByName("A").listener.protocol = HTTP

\* C9: Listener(id) and ListenerByName(name) return an error exactly when no
\* repository holds a match, and then no listener; otherwise they return a
\* listener that matches and no error.
C9_FoundOrError ==
    /\ \A id \in Ids :
          LET r == Listener(id)
          IN  IF id \in StoredIds
              THEN r.err = Nil /\ r.listener # ZeroListener /\ r.listener.id = id
              ELSE r.err # Nil /\ r.listener = ZeroListener
    /\ \A name \in Names :
          LET r == ListenerByName(name)
          IN  IF name \in NamesIn(httpRepo) \cup NamesIn(smbRepo)
                            \cup NamesIn(tcpRepo) \cup NamesIn(udpRepo)
              THEN r.err = Nil /\ r.listener # ZeroListener /\ r.listener.name = name
              ELSE r.err # Nil /\ r.listener = ZeroListener

C9_Witness ==
    /\ IdsIn(udpRepo) # {}
    /\ IdsIn(httpRepo) = {}
    /\ \E id \in Ids : id \notin StoredIds
    /\ "B" \in NamesIn(udpRepo)
    /\ "A" \notin NamesIn(udpRepo) \cup NamesIn(smbRepo) \cup NamesIn(tcpRepo)

(***************************************************************************)
(* Properties of the lifecycle calls (LifecycleSpec).                      *)
(***************************************************************************)
\* C10: on a stored listener without an embedded server, Start, Stop and
\* Restart return success, end normally and change no state of the service.
C10_NoServerNoOp ==
    [][\A id \in Ids :
          (/\ Listener(id).err = Nil
           /\ Listener(id).listener.server = NoServer
           /\ \/ Start(id)
              \/ \E fails \in BOOLEAN : Stop(id, fails)
              \/ \E fails \in BOOLEAN : Restart(id, fails))
             => (/\ last'.err = Nil
                 /\ ~last'.panic
                 /\ UNCHANGED <<httpRepo, smbRepo, tcpRepo, udpRepo, httpServerRepo,
                                pending, nextId>>)]_vars

\* the id is that of a stored HTTP listener
HTTPListener(id) == Listener(id).err = Nil /\ Listener(id).listener.protocol = HTTP

ServerFailures == {"server stop failed", "server start failed"}

\* C11, as stated: every failure of the embedded server's Start or Stop is
\* what a Start, Stop or Restart call of the service returned.
C11_EveryFailureReturned ==
    last.err \in ServerFailures => last.op \in {"Start", "Stop", "Restart"}

C11_StopFailure ==
    \A id \in Ids :
        HTTPListener(id) =>
            /\ Stop(id, TRUE) =>
                  (last'.op = "Stop" /\ last'.err = "server stop failed")
            /\ Restart(id, TRUE) =>
                  (/\ last'.op = "Restart" /\ last'.err = "server stop failed"
                   /\ pending' = pending)
            /\ Start(id) => last'.err = Nil
            /\ Restart(id, FALSE) => last'.err = Nil

C11_StartFailureLost ==
    last.err = "server start failed" => last.op = "ServerStart"

\* C11, amended: a failure of the embedded server's Stop during Stop(id) or
\* Restart(id) on an HTTP listener is returned to the caller, and Restart
\* then launches no start; Start(id), and Restart(id) after a successful
\* stop, return success as soon as the server's Start is launched, so a
\* failure of that Start happens in the launched task and is returned to no
\* caller.
C11_StopFailureReturned == [][C11_StopFailure]_vars /\ []C11_StartFailureLost

C11_Witness ==
    /\ last.op = "Restart"
    /\ last.err = "server stop failed"
    /\ \E s \in DOMAIN httpServerRepo : httpServerRepo[s].state = "Running"

C12_Launched ==
    \A id \in Ids :
        (HTTPListener(id) /\ Start(id)) =>
            /\ last'.op = "Start" /\ last'.err = Nil /\ ~last'.panic
            /\ pending'[ServerOf(id)] = pending[ServerOf(id)] + 1
            /\ httpServerRepo' = httpServerRepo

C12_NeverWaits ==
    \A id \in Ids :
        (Alive /\ HTTPListener(id) /\ pending[ServerOf(id)] < MaxPending)
            => ENABLED Start(id)

\* C12: Start(id) on a stored HTTP listener returns success in the step that
\* launches the server's Start as a task of its own, with that task not yet
\* run and the server's state untouched, and it can do so in whatever state
\* the server and its earlier tasks are: the caller waits for neither.
C12_StartNonBlocking == [][C12_Launched]_vars /\ []C12_NeverWaits

C12_Witness ==
    /\ last.op = "Start" /\ last.err = Nil
    /\ \E s \in DOMAIN httpServerRepo :
          pending[s] > 0 /\ httpServerRepo[s].state = "Created"

\* C13: while a Stop on an HTTP listener has returned success and no Start
\* or Restart call on it has been issued since, its embedded server is not
\* running, whatever Start and Restart calls were issued before.
C13_StoppedStaysStopped ==
    \A s \in stopReturned : httpServerRepo[s].state # "Running"

\* C14: when Start(id) is called on an HTTP listener after a completed
\* Stop(id), then, if the server's start does not fail, the listener
\* eventually is Running again, provided every launched task is scheduled.
C14_StartAfterStopRuns ==
    \A s \in Ids :
        (s \in resumed) ~>
            (\/ (s \in DOMAIN httpServerRepo /\ httpServerRepo[s].state = "Running")
             \/ last.err = "server start failed")

(***************************************************************************)
(* Further properties of the transform chain (ChainSpec).                  *)
(***************************************************************************)
\* the stage invocation returned an error
StageFailed(call) == call.err # Nil /\ call.err # "panic"

\* C15: when a stage returns an error, it is the last stage the call
\* invokes, and the call returns an error with no bytes (Construct) or with
\* an empty message (Deconstruct).
C15_StageFailureAborts ==
    \A j \in DOMAIN res.calls :
        StageFailed(res.calls[j]) =>
            /\ j = Len(res.calls)
            /\ res.err # Nil
            /\ ~res.panic
            /\ res.op = "Construct" => res.data = NilBytes
            /\ res.op = "Deconstruct" => res.out = EmptyMsg

C15_Witness ==
    /\ res.op = "Construct"
    /\ Len(listener.transformers) = 2
    /\ Len(res.calls) = 1
    /\ StageFailed(res.calls[1])
    /\ res.err # Nil /\ res.data = NilBytes

\* the keys of the encryption layers of a value
LayerKeys(v) == {v.layers[j].k : j \in {i \in DOMAIN v.layers : v.layers[i].t = "aes"}}

\* the key the stages are to be given for the caller's key
StageKey(key) == IF key = NoKey THEN listener.psk ELSE key

\* C16: a call with an empty key returns what the same call with the
\* listener's pre-shared key returns, and the key the encrypting stages
\* work with is the pre-shared key for an empty caller key and the caller's
\* key for any other.
C16_KeyDefaulting ==
    /\ (res.op = "Construct" /\ res.key = NoKey) =>
          LET c == Construct(listener, res.msg, listener.psk)
          IN  res.data = c.data /\ res.err = c.err /\ res.panic = c.panic
    /\ (res.op = "Deconstruct" /\ res.key = NoKey) =>
          LET d == Deconstruct(listener, res.in, listener.psk)
          IN  res.out = d.msg /\ res.err = d.err /\ res.panic = d.panic
    /\ (res.op = "Construct" /\ res.err = Nil /\ ~res.panic) =>
          LayerKeys(res.data) \subseteq {StageKey(res.key)}
    /\ (res.op = "Deconstruct" /\ res.err = Nil /\ ~res.panic) =>
          LayerKeys(res.in) \subseteq {StageKey(res.key)}

C16_Witness ==
    /\ res.op = "Construct" /\ res.key = NoKey /\ res.err = Nil
    /\ listener.psk # NoKey
    /\ LayerKeys(res.data) = {listener.psk}

(***************************************************************************)
(* Properties of the TCP listeners (TCPSpec).                              *)
(***************************************************************************)
\* the names of a Transforms value, lower-cased
TransformNames(options) ==
    LET names == Split(options["Transforms"])
    IN  {ToLower(names[i]) : i \in DOMAIN names}

\* a bag the TCP factory is to reject
InvalidTCP(options) ==
    \/ Get(options, "Name") = ""
    \/ Get(options, "Interface") \notin {"127.0.0.1", "0.0.0.0"}
    \/ Get(options, "Port") \notin {"7777", "80"}
    \/ /\ Has(options, "Transforms")
       /\ ~(TransformNames(options) \subseteq {"gob-base", "gob-delegate", "aes"})

\* C17: NewListener for the TCP protocol on a bag with an empty Name, with
\* a missing or invalid Interface, with a missing or non-numeric Port, or
\* with an unrecognized name in Transforms returns an error and no
\* listener, and leaves every repository as it was.
C17_TCPValidation ==
    [][\A options \in TCPBags :
          (InvalidTCP(options) /\ NewListener(options))
             => (/\ last'.err # Nil
                 /\ last'.ret = <<>>
                 /\ UNCHANGED <<httpRepo, smbRepo, tcpRepo, udpRepo,
                                httpServerRepo>>)]_vars

C17_Witness ==
    /\ last.op = "NewListener"
    /\ last.err = "unhandled transform type"
    /\ Len(tcpRepo) = 1
    /\ \A options \in TCPBadBags : InvalidTCP(options)

\* C18: every stored TCP listener has the PAKE-based authenticator if it
\* was created with Authenticator "opaque" in any letter case, and the
\* pass-through authenticator otherwise, also without an Authenticator key;
\* so Authenticate on it never fails for lack of an authenticator.
C18_AuthenticatorSelected ==
    /\ \A i \in DOMAIN tcpRepo :
          tcpRepo[i].auth =
              IF ToLower(Get(tcpRepo[i].options, "Authenticator")) = "opaque"
              THEN "opaque" ELSE "none"
    /\ last.op = "Authenticate" => ~last.panic

\* C19: the key of every stored TCP listener is, whatever calls were made
\* since its creation, the hash of the PSK value it was created with, and
\* the empty key if that value was absent or empty.
C19_KeyDerivedOnce ==
    \A id \in DOMAIN created :
        RepoHas(tcpRepo, id) =>
            RepoListenerByID(tcpRepo, id).listener.psk =
                IF Get(created[id].options, "PSK") = "" THEN NoKey
                ELSE Sum256(created[id].options["PSK"])

\* C20: SetOption on a stored listener with the option Name or Description,
\* in any letter case, returns success and sets that field; with any other
\* option name it returns the unhandled-option error and leaves every field
\* of every stored listener as it was.
C20_OnlyNameAndDescription ==
    [][\A id \in Ids, option \in OptionNames :
          (RepoHas(tcpRepo, id) /\ SetOption(id, option, "B")) =>
              LET l == RepoListenerByID(tcpRepo, id).listener
                  after == RepoListenerByID(tcpRepo', id).listener
              IN  IF ToLower(option) = "name"
                  THEN last'.err = Nil /\ after = [l EXCEPT !.name = "B"]
                  ELSE IF ToLower(option) = "description"
                  THEN last'.err = Nil /\ after = [l EXCEPT !.description = "B"]
                  ELSE /\ last'.err = "unhandled option"
                       /\ UNCHANGED <<httpRepo, smbRepo, tcpRepo, udpRepo>>]_vars

C20_Witness ==
    /\ last.op = "SetOption"
    /\ last.err = "unhandled option"
    /\ \E i \in DOMAIN tcpRepo : tcpRepo[i].description = "B" /\ tcpRepo[i].name = "A"

(***************************************************************************)
(* Properties of the peer-to-peer listeners (PeerSpec).                    *)
(***************************************************************************)
\* C21: in every state, each stored TCP listener reports the status
\* "Created", the protocol TCP and no embedded server, whatever Start, Stop,
\* SetOption, Construct and Deconstruct calls were made; and the listener
\* NewListener returns for the options {Protocol tcp, Name T1, Interface
\* 127.0.0.1, Port 7777, PSK merlin, Transforms aes,gob-base} reports the
\* name T1.
C21_Static ==
    \A i \in DOMAIN tcpRepo :
        /\ ListenerStatus(tcpRepo[i]) = "Created"
        /\ ListenerProtocol(tcpRepo[i]) = TCP
        /\ ListenerServer(tcpRepo[i]) = NoServer

C21_CreatedAsT1 ==
    (NewListener(T1Options) /\ last'.err = Nil) =>
        /\ ListenerName(last'.ret[1]) = "T1"
        /\ ListenerStatus(last'.ret[1]) = "Created"
        /\ ListenerProtocol(last'.ret[1]) = TCP
        /\ ListenerServer(last'.ret[1]) = NoServer

C21_PeerStatus == [][C21_CreatedAsT1]_vars /\ []C21_Static

\* a listener made from the T1 options, after it was started, stopped,
\* renamed and used to construct
C21_Witness ==
    /\ last.op = "Stop" /\ last.err = Nil
    /\ res.op = "Construct" /\ res.err = Nil /\ Len(res.calls) = 2
    /\ \E i \in DOMAIN tcpRepo :
          /\ tcpRepo[i].options = T1Options
          /\ tcpRepo[i].name = "B"

(***************************************************************************)
(* Properties of the aggregate queries (Spec).                             *)
(***************************************************************************)
\* the place of a protocol in the order HTTP, SMB, TCP, UDP
ProtocolRank(kind) ==
    CASE kind = HTTP -> 1 [] kind = SMB -> 2 [] kind = TCP -> 3 [] kind = UDP -> 4
      [] OTHER -> 5

\* C22: Listeners() and ListenerNames() have one entry per stored listener,
\* in the order HTTP, SMB, TCP, UDP of their protocols and, within one
\* protocol, in the order of creation (identifiers are issued in increasing
\* order); the i-th name of ListenerNames() is the name of the i-th listener
\* of Listeners().
C22_AggregateOrder ==
    /\ Len(Listeners) = Len(httpRepo) + Len(smbRepo) + Len(tcpRepo) + Len(udpRepo)
    /\ \A id \in StoredIds :
          Cardinality({i \in DOMAIN Listeners : Listeners[i] = Listener(id).listener}) = 1
    /\ \A i, j \in DOMAIN Listeners :
          i < j =>
              \/ ProtocolRank(Listeners[i].protocol) < ProtocolRank(Listeners[j].protocol)
              \/ /\ Listeners[i].protocol = Listeners[j].protocol
                 /\ Listeners[i].id < Listeners[j].id
    /\ Len(ListenerNames) = Len(Listeners)
    /\ \A i \in DOMAIN Listeners : ListenerNames[i] = Listeners[i].name

\* a UDP listener created before two TCP listeners, the first of them renamed
C22_Witness ==
    /\ Len(udpRepo) = 1 /\ Len(tcpRepo) = 2
    /\ udpRepo[1].id < tcpRepo[1].id
    /\ ListenerNames = <<"B", "A", "A">>

(***************************************************************************)
(* Properties of the default options (OptionsSpec).                        *)
(***************************************************************************)
\* a sequence of option names in strictly ascending lexical order
Ascending(keys) ==
    \A i, j \in DOMAIN keys :
        i < j => \E a, b \in DOMAIN KeyOrder :
                     a < b /\ KeyOrder[a] = keys[i] /\ KeyOrder[b] = keys[j]

\* C23: for every protocol DefaultOptions supports, the returned bag holds
\* the listener's defaults overwritten by the server's defaults on the keys
\* both define, and it presents its keys, each once, in strictly ascending
\* lexical order.
C23_DefaultsSorted ==
    [][\A protocol \in DefaultProtocols :
          (DefaultOptions(protocol) /\ last'.err = Nil) =>
              LET options == last'.ret[1]
                  order == last'.ret[2]
                  ofListener == IF FromString(protocol) = TCP THEN TCPDefaultOptions
                                ELSE HTTPDefaultOptions
                  ofServer == IF FromString(protocol) = TCP THEN NilMap
                              ELSE GetDefaultOptions(protocol)
              IN  /\ DOMAIN options = DOMAIN ofListener \cup DOMAIN ofServer
                  /\ \A key \in DOMAIN options :
                        options[key] = IF key \in DOMAIN ofServer THEN ofServer[key]
                                       ELSE ofListener[key]
                  /\ {order[i] : i \in DOMAIN order} = DOMAIN options
                  /\ Len(order) = Cardinality(DOMAIN options)
                  /\ Ascending(order)]_vars

(***************************************************************************)
(* More properties of the lifecycle calls (LifecycleSpec).                 *)
(***************************************************************************)
\* C24: Restart(id) on an HTTP listener stops the server first.  If the
\* stop fails, Restart returns the error, launches no task and leaves the
\* server as it was.  If the stop succeeds, Restart launches exactly one
\* task that will run the server's Start and returns success with the
\* server stopped, without waiting for the task.  When the launched Start
\* then fails, the server's state stays as it was (stopped), no new task is
\* launched and nothing else changes.
C24_Restart ==
    \A id \in Ids, fails \in BOOLEAN :
        (HTTPListener(id) /\ Restart(id, fails)) =>
            LET server == ServerOf(id)
            IN  IF fails
                THEN /\ last'.err = "server stop failed"
                     /\ UNCHANGED <<pending, httpServerRepo>>
                ELSE /\ last'.err = Nil /\ ~last'.panic
                     /\ pending' = [pending EXCEPT ![server] = @ + 1]
                     /\ httpServerRepo' =
                            [httpServerRepo EXCEPT ![server].state = "Stopped"]

C24_FailedStart ==
    \A server \in Ids :
        ServerStart(server, TRUE) =>
            /\ UNCHANGED <<httpServerRepo, httpRepo, smbRepo, tcpRepo, udpRepo>>
            /\ pending' = [pending EXCEPT ![server] = @ - 1]
            /\ (httpServerRepo[server].state = "Stopped"
                  => httpServerRepo'[server].state = "Stopped")

C24_RestartStopsThenLaunches == [][C24_Restart /\ C24_FailedStart]_vars

\* the Start that a successful Restart launched has failed: the server is
\* stopped and no task is left
C24_Witness ==
    /\ last.op = "ServerStart" /\ last.err = "server start failed"
    /\ \E server \in DOMAIN httpServerRepo :
          /\ httpServerRepo[server].state = "Stopped"
          /\ pending[server] = 0
          /\ server \notin stopReturned

(***************************************************************************)
(* More properties of the TCP listeners (TCPSpec).                         *)
(***************************************************************************)
\* the fields of a listener that no option of SetOption may change
C25_Kept(l, after) ==
    /\ after.id = l.id
    /\ after.protocol = l.protocol
    /\ after.psk = l.psk
    /\ after.transformers = l.transformers
    /\ after.auth = l.auth
    /\ after.iface = l.iface
    /\ after.port = l.port
    /\ after.server = l.server
    /\ ListenerOptions(after) = ListenerOptions(l)

\* C25: a successful SetOption with the option Name changes only the name
\* of the listener, and one with the option Description only its
\* description: the id, protocol, pre-shared key, transformer chain,
\* authenticator, interface, port and the options bag that Options()
\* returns are as before, and so is every other stored listener.
C25_SetOptionFrame ==
    [][\A id \in Ids, option \in OptionNames :
          (/\ RepoHas(tcpRepo, id)
           /\ ToLower(option) \in {"name", "description"}
           /\ SetOption(id, option, "B")
           /\ last'.err = Nil) =>
              LET l == RepoListenerByID(tcpRepo, id).listener
                  after == RepoListenerByID(tcpRepo', id).listener
              IN  /\ C25_Kept(l, after)
                  /\ IF ToLower(option) = "name"
                     THEN after.name = "B" /\ after.description = l.description
                     ELSE after.description = "B" /\ after.name = l.name
                  /\ \A other \in StoredIds \ {id} : Listener(other)' = Listener(other)
                  /\ StoredIds' = StoredIds]_vars

\* a renamed listener with a key, a chain and an authenticator, whose
\* options bag still holds the name it was created with
C25_Witness ==
    /\ last.op = "SetOption" /\ last.err = Nil
    /\ \E i \in DOMAIN tcpRepo :
          /\ tcpRepo[i].name = "B"
          /\ ListenerOptions(tcpRepo[i])["Name"] = "A"
          /\ tcpRepo[i].transformers = <<"aes", "gob-base">>
          /\ tcpRepo[i].auth = "opaque"
          /\ tcpRepo[i].description = ""

(***************************************************************************)
(* More properties of the transform chain (ChainSpec).                     *)
(***************************************************************************)
\* the stage invocations of the last call that yielded a structured message
Yields == {j \in DOMAIN res.calls :
              res.calls[j].err = Nil /\ TypeOf(res.calls[j].output) = "messages.Base"}

\* the stage invocations whose output is neither bytes nor a message
BadType == {j \in DOMAIN res.calls :
               res.calls[j].err = Nil
                 /\ TypeOf(res.calls[j].output) \notin {"[]uint8", "string", "messages.Base"}}

\* C26: Deconstruct invokes the stages in forward order and returns the
\* message of the first stage that yields a structured message, invoking no
\* stage after it; it returns an error exactly when an invoked stage fails,
\* a stage's output is neither bytes, string nor message, or no stage yields
\* a structured message (as on every call with an empty chain).
C26_FirstMessageOrError ==
    res.op = "Deconstruct" =>
        /\ \A j \in DOMAIN res.calls : res.calls[j].stage = j
        /\ Yields # {} =>
              /\ Yields = {Len(res.calls)}
              /\ res.out = res.calls[Len(res.calls)].output
        /\ res.err # Nil <=>
              \/ \E j \in DOMAIN res.calls : StageFailed(res.calls[j])
              \/ BadType # {}
              \/ Yields = {}

(***************************************************************************)
(* More properties of the aggregate queries (Spec).                        *)
(***************************************************************************)
\* C27: ListenersByType(protocol) returns the listeners that Listeners()
\* returns for that protocol, in the same order: one entry per listener of
\* the protocol's repository, no two entries denoting the same listener,
\* and the empty list for a protocol that is not recognized.
C27_ByTypeIsListenersOfType ==
    \A protocol \in {UNKNOWN, HTTP, SMB, TCP, UDP}, shared \in BOOLEAN :
        LET byType == ListenersByType(protocol, shared)
        IN  /\ byType = SelectSeq(Listeners, LAMBDA l : l.protocol = protocol)
            /\ \A i, j \in DOMAIN byType : i # j => byType[i].id # byType[j].id
            /\ protocol = UNKNOWN => byType = <<>>

\* the names of the Transforms option, in order; none without the option
TransformList(options) ==
    IF Has(options, "Transforms") THEN Split(options["Transforms"]) ELSE <<>>

\* C28: the chain of a created TCP listener has one stage per name of the
\* Transforms option, in the order of the names, and every stage is a usable
\* (non-nil) transform, the one its name gob-base, gob-delegate or aes
\* selects; without a Transforms option the chain is empty.
C28_WellFormedChain ==
    listener # ZeroListener =>
        LET names == TransformList(ListenerOptions(listener))
        IN  /\ Len(listener.transformers) = Len(names)
            /\ \A i \in DOMAIN names :
                  /\ listener.transformers[i] # NilTransformer
                  /\ ToLower(names[i]) \in {"gob-base", "aes"}
                        => listener.transformers[i] = ToLower(names[i])
            /\ ~Has(ListenerOptions(listener), "Transforms")
                  => listener.transformers = <<>>

(***************************************************************************)
(* Removal and the embedded server (LifecycleSpec).                        *)
(***************************************************************************)
\* C29: Remove(id) on an HTTP listener succeeds whatever the state of its
\* server, deletes the listener's entry from the HTTP repository and
\* changes nothing else: the other repositories, the server repository,
\* every server's state and the launched tasks are as before.  A Stop(id)
\* after the removal returns the not-found error and leaves the servers as
\* they are, so a server that was running stays running.
C29_RemoveOnlyEntry ==
    \A id \in Ids :
        (HTTPListener(id) /\ Remove(id)) =>
            /\ last'.err = Nil
            /\ httpRepo' = SelectSeq(httpRepo, LAMBDA l : l.id # id)
            /\ UNCHANGED <<smbRepo, tcpRepo, udpRepo, httpServerRepo, pending>>

C29_StopAfterRemove ==
    \A id \in removed, fails \in BOOLEAN :
        Stop(id, fails) =>
            /\ last'.err = "could not find listener"
            /\ UNCHANGED <<httpServerRepo, pending>>

C29_RemoveFrame == [][C29_RemoveOnlyEntry /\ C29_StopAfterRemove]_vars

\* Stop on a removed HTTP listener whose server is still running
C29_Witness ==
    /\ last.op = "Stop" /\ last.err = "could not find listener"
    /\ httpRepo = <<>> /\ removed # {}
    /\ \E server \in DOMAIN httpServerRepo : httpServerRepo[server].state = "Running"

(***************************************************************************)
(* Concurrent calls on one listener (ConcurrentSpec).                      *)
(***************************************************************************)
\* the call of the caller has returned what the same call returns alone
AsAlone(c) ==
    LET call == inflight[c]
        construct == Construct(listener, call.msg, call.arg)
        deconstruct == Deconstruct(listener, call.in, call.arg)
    IN  IF call.op = "Construct"
        THEN /\ call.data = construct.data
             /\ call.err = construct.err
             /\ call.panic = construct.panic
        ELSE /\ call.out = deconstruct.msg
             /\ call.err = deconstruct.err
             /\ call.panic = deconstruct.panic

\* C30: no step of a Construct or Deconstruct call changes the listener
\* (id, name, description, pre-shared key, chain, options), and however the
\* steps of concurrent calls on the listener interleave, each call returns
\* what the same call with the same input and key returns when run alone.
C30_CallsIndependent ==
    /\ [][listener' = listener]_vars
    /\ [](\A c \in Callers : inflight[c].done => AsAlone(c))

\* one caller's Construct has returned while the other caller is in the
\* second iteration of a Deconstruct on the same listener
C30_Witness ==
    /\ inflight["c1"].op = "Construct" /\ inflight["c1"].done
    /\ inflight["c1"].err = Nil /\ inflight["c1"].data # NilBytes
    /\ inflight["c2"].op = "Deconstruct" /\ ~inflight["c2"].done
    /\ inflight["c2"].k = 2
    /\ Len(listener.transformers) = 2

(***************************************************************************)
(* More properties of the default options (OptionsSpec).                   *)
(***************************************************************************)
\* NewListener hands a bag with this Protocol value to a factory
Dispatched(protocol) ==
    NewListenerRun([Protocol |-> protocol]).err # "unhandled server type"

\* C31: DefaultOptions(p) succeeds exactly for the protocol strings p that
\* NewListener dispatches to a factory (http, https, h2c, http2, http3, smb,
\* tcp, udp, in any letter case); for every other p it returns the
\* unhandled-type error and no options.
C31_SameProtocols ==
    [][\A protocol \in DefaultProtocols :
          DefaultOptions(protocol) =>
              IF Dispatched(protocol)
              THEN last'.err = Nil /\ last'.ret # <<>>
              ELSE last'.err = "unhandled server type" /\ last'.ret = <<>>]_vars

(***************************************************************************)
(* Calls with an unknown id (ServiceSpec).                                 *)
(***************************************************************************)
\* C32: Remove, SetOption, Start, Stop and Restart with an id that no
\* repository holds return an error, end normally and change nothing: every
\* repository and every stored listener is as before, the server
\* repository and every server's state are as before, and no task is
\* launched.
C32_UnknownIdRejected ==
    [][\A id \in Ids \ StoredIds :
          (\/ Remove(id)
           \/ SetOption(id, "NAME", "B")
           \/ Start(id)
           \/ \E fails \in BOOLEAN : Stop(id, fails)
           \/ \E fails \in BOOLEAN : Restart(id, fails))
             => /\ last'.err = "could not find listener"
                /\ ~last'.panic
                /\ UNCHANGED <<httpRepo, smbRepo, tcpRepo, udpRepo, httpServerRepo,
                               pending, removed>>]_vars

\* Stop with the id of a removed listener while a server is running and a
\* TCP listener is stored
C32_Witness ==
    /\ last.op = "Stop" /\ last.err = "could not find listener"
    /\ removed # {} /\ Len(tcpRepo) > 0
    /\ \E server \in DOMAIN httpServerRepo : httpServerRepo[server].state = "Running"

====
